---------------------------- MODULE Spec2Model ----------------------------
(***************************************************************************)
(* A model of the predictive front end for a subset of C                   *)
(* (zhouder/parser_c): the character matchers (service/matcher.py), the    *)
(* lexer (service/lexer.py), the FIRST / FOLLOW / SELECT analysis          *)
(* (service/first_follow.py) over grammars (service/grammer.py), the       *)
(* predictive table (service/parse_table.py), the table-driven parser the  *)
(* driver (main.py) runs over the built-in grammar, and the AST builder    *)
(* (service/ast_builder.py).                                               *)
(*                                                                         *)
(* A text is a sequence of one-character strings.  Offsets are 0-based as  *)
(* in the source: the character at offset i of t is t[i + 1].              *)
(***************************************************************************)
EXTENDS Integers, Sequences, FiniteSets, TLC

VARIABLES
    text,     \* Lexer.text
    pos,      \* Lexer.pos
    line,     \* Lexer.line
    col,      \* Lexer.col
    tok,      \* the token the last next_token call returned
    start,    \* the offset at which that call began the token (after skips)
    mcall,    \* a call of one character matcher: its arguments and result
    cands,    \* the candidate list handed to the longest-match selection
    winner,   \* the entry the selection picked
    prods,    \* Grammar.productions
    nonterminals, \* Grammar.nonterminals
    terminals,    \* Grammar.terminals
    first,    \* the FIRST sets under construction
    follow,   \* the FOLLOW sets under construction
    changed,  \* the `changed` flag of the running fixed-point loop
    phase,    \* the position of the grammar analysis
    start_symbol,   \* Grammar.start_symbol
    select,   \* the SELECT sets: a dict keyed by production, in key order
    table,    \* ParseTable.table: the filled cells <<A, a>> and their production
    conflicts,      \* ParseTable._conflicts
    allow_conflict, \* the mode from_grammar was called in
    raised,   \* the message of the ValueError from_grammar raised, or <<>>
    source,   \* the text handed to the table-driven parser
    tokens,   \* the tokens of the source, EOF excluded
    cursor,   \* the token cursor
    stack,    \* the parser's stack of [symbol, parent, role], top last
    tree,     \* the parse tree: its nodes [symbol, lexeme, parent] as created
    type_names,   \* the dynamic type-name set
    matched,  \* the lexemes of the tokens matched against terminals
    outcome,  \* "none", "running", "accept" or the kind of the failure
    ast,      \* what build_ast returned, or <<>>
    args_source,  \* main: args.source, the path on the command line
    exit_status,  \* main: the status the process exited with, or <<>>
    rd_tokens,    \* the tokens the lexer hands to the recursive-descent Parser
    rd_result     \* what its parse_program ended with, or <<>>

vars == <<text, pos, line, col, tok, start, mcall, cands, winner,
          prods, nonterminals, terminals, first, follow, changed, phase,
          start_symbol, select, table, conflicts, allow_conflict, raised,
          source, tokens, cursor, stack, tree, type_names, matched, outcome,
          ast, args_source, exit_status, rd_tokens, rd_result>>

lexVars == <<text, pos, line, col, tok, start>>
priVars == <<cands, winner>>
ffVars  == <<prods, nonterminals, terminals, first, follow, changed, phase,
            start_symbol>>
tblVars == <<select, table, conflicts, allow_conflict, raised>>
parseVars == <<source, tokens, cursor, stack, tree, type_names, matched,
               outcome, ast>>
mainVars == <<args_source, exit_status>>
rdVars == <<rd_tokens, rd_result>>

(***************************************************************************)
(* Bounds of the model.                                                    *)
(***************************************************************************)
MaxLen     == 3   \* texts over Alphabet have at most this many characters
MaxNumLen  == 4   \* texts over NumAlphabet have at most this many characters

Min(a, b) == IF a < b THEN a ELSE b
Max(a, b) == IF a > b THEN a ELSE b

\* text[i] for a 0-based offset i
At(t, i) == t[i + 1]

\* Python's clamped slice t[a:b]
Slice(t, a, b) ==
    IF a >= Min(b, Len(t)) THEN <<>> ELSE SubSeq(t, a + 1, Min(b, Len(t)))

(***************************************************************************)
(* service/token.py                                                        *)
(***************************************************************************)
KEYWORDS ==
  {
    <<"a", "u", "t", "o">>, <<"d", "o", "u", "b", "l", "e">>,
    <<"i", "n", "t">>, <<"s", "t", "r", "u", "c", "t">>,
    <<"b", "r", "e", "a", "k">>, <<"e", "l", "s", "e">>,
    <<"l", "o", "n", "g">>, <<"s", "w", "i", "t", "c", "h">>,
    <<"c", "a", "s", "e">>, <<"e", "n", "u", "m">>,
    <<"r", "e", "g", "i", "s", "t", "e", "r">>,
    <<"t", "y", "p", "e", "d", "e", "f">>, <<"c", "h", "a", "r">>,
    <<"e", "x", "t", "e", "r", "n">>, <<"r", "e", "t", "u", "r", "n">>,
    <<"u", "n", "i", "o", "n">>, <<"c", "o", "n", "s", "t">>,
    <<"f", "l", "o", "a", "t">>, <<"s", "h", "o", "r", "t">>,
    <<"u", "n", "s", "i", "g", "n", "e", "d">>,
    <<"c", "o", "n", "t", "i", "n", "u", "e">>, <<"f", "o", "r">>,
    <<"s", "i", "g", "n", "e", "d">>, <<"v", "o", "i", "d">>,
    <<"d", "e", "f", "a", "u", "l", "t">>, <<"g", "o", "t", "o">>,
    <<"s", "i", "z", "e", "o", "f">>,
    <<"v", "o", "l", "a", "t", "i", "l", "e">>, <<"d", "o">>, <<"i", "f">>,
    <<"s", "t", "a", "t", "i", "c">>, <<"w", "h", "i", "l", "e">>,
    <<"p", "r", "i", "n", "t", "f">>, <<"i", "n", "c", "l", "u", "d", "e">>
  }

OPERATORS ==
  <<
    <<">", ">", "=">>, <<"<", "<", "=">>, <<"=", "=">>, <<"!", "=">>,
    <<">", "=">>, <<"<", "=">>, <<"+", "+">>, <<"-", "-">>, <<"&", "&">>,
    <<"|", "|">>, <<"+", "=">>, <<"-", "=">>, <<"*", "=">>, <<"/", "=">>,
    <<"%", "=">>, <<"&", "=">>, <<"|", "=">>, <<"^", "=">>, <<"<", "<">>,
    <<">", ">">>, <<"-", ">">>, <<".">>, <<"+">>, <<"-">>, <<"*">>,
    <<"/">>, <<"%">>, <<"&">>, <<"|">>, <<"^">>, <<"~">>, <<"!">>, <<"=">>,
    <<"<">>, <<">">>, <<"?">>
  >>

DELIMITERS ==
  <<
    <<".", ".", ".">>, <<"(">>, <<")">>, <<"[">>, <<"]">>, <<"{">>,
    <<"}">>, <<";">>, <<",">>, <<":">>
  >>

\* Token(type, lexeme, line, col)
Token(ty, lx, ln, cl) == [type |-> ty, lexeme |-> lx, line |-> ln, col |-> cl]

\* the value of `tok` before the first call
NoToken == Token("NONE", <<>>, 0, 0)

(***************************************************************************)
(* service/matcher.py: character classes                                   *)
(***************************************************************************)
\* the last element is the vertical tab, written as the character itself
WHITESPACE == {" ", "\t", "\r", "\n", "\f", ""}

LowerCase ==
  { "a", "b", "c", "d", "e", "f", "g", "h", "i", "j", "k", "l", "m", "n",
    "o", "p", "q", "r", "s", "t", "u", "v", "w", "x", "y", "z" }

UpperCase ==
  { "A", "B", "C", "D", "E", "F", "G", "H", "I", "J", "K", "L", "M", "N",
    "O", "P", "Q", "R", "S", "T", "U", "V", "W", "X", "Y", "Z" }

DigitChars == {"0", "1", "2", "3", "4", "5", "6", "7", "8", "9"}
OctChars   == {"0", "1", "2", "3", "4", "5", "6", "7"}
HexChars   == DigitChars \cup {"a", "b", "c", "d", "e", "f"}
                         \cup {"A", "B", "C", "D", "E", "F"}

is_alpha(c)       == c \in LowerCase \/ c \in UpperCase
is_digit(c)       == c \in DigitChars
is_hex(c)         == is_digit(c) \/ c \in HexChars
is_oct(c)         == c \in OctChars
is_id_start(c)    == is_alpha(c) \/ c = "_"
is_id_continue(c) == is_id_start(c) \/ is_digit(c)

IdStartChars    == LowerCase \cup UpperCase \cup {"_"}
IdContinueChars == IdStartChars \cup DigitChars

\* the loop `while i < n and pred(text[i]): i += 1`, the predicate given by
\* the set of characters it accepts; the value is the final i
RECURSIVE while_pred(_, _, _)
while_pred(t, i, S) ==
    IF i < Len(t) /\ At(t, i) \in S THEN while_pred(t, i + 1, S) ELSE i

match_while(t, p, S) == while_pred(t, p, S) - p

match_whitespace(t, p) == match_while(t, p, WHITESPACE)

match_identifier(t, p) ==
    IF p >= Len(t) \/ ~is_id_start(At(t, p))
    THEN 0
    ELSE while_pred(t, p + 1, IdContinueChars) - p

match_float(t, p) ==
    LET n == Len(t) IN
    IF p >= n \/ ~is_digit(At(t, p))
    THEN 0
    ELSE LET i1 == p + match_while(t, p, DigitChars)
         IN  IF i1 >= n \/ At(t, i1) # "."
             THEN 0
             ELSE LET i2 == i1 + 1
                  IN  IF i2 >= n \/ ~is_digit(At(t, i2))
                      THEN 0
                      ELSE LET i3 == i2 + match_while(t, i2, DigitChars)
                           IN  IF i3 < n /\ At(t, i3) \in {"e", "E"}
                               THEN LET j0 == i3 + 1
                                        j  == IF j0 < n /\ At(t, j0) \in {"+", "-"}
                                              THEN j0 + 1 ELSE j0
                                        k  == j + match_while(t, j, DigitChars)
                                    IN  IF k = j THEN 0 ELSE k - p
                               ELSE i3 - p

match_hex_int(t, p) ==
    LET n == Len(t) IN
    IF p + 1 < n /\ At(t, p) = "0" /\ At(t, p + 1) \in {"x", "X"}
    THEN LET j == p + 2
         IN  IF j < n /\ is_hex(At(t, j))
             THEN while_pred(t, j, HexChars) - p
             ELSE 0
    ELSE 0

match_oct_int(t, p) ==
    LET n == Len(t) IN
    IF p < n /\ At(t, p) = "0"
    THEN LET j == p + 1
         IN  IF j < n /\ is_oct(At(t, j))
             THEN while_pred(t, j, OctChars) - p
             ELSE 0
    ELSE 0

match_dec_int(t, p) ==
    IF p >= Len(t) \/ ~is_digit(At(t, p))
    THEN 0
    ELSE IF At(t, p) = "0"
         THEN 1
         ELSE (p + 1 + match_while(t, p + 1, DigitChars)) - p

\* the loop of match_string_or_char from offset i: where it stops, and
\* whether it stopped on the closing quote
RECURSIVE string_loop(_, _, _)
string_loop(t, i, quote) ==
    IF i < Len(t)
    THEN LET c == At(t, i)
         IN  IF c = "\\" THEN string_loop(t, i + 2, quote)
             ELSE IF c = quote THEN [i |-> i, closed |-> TRUE]
             ELSE IF c = "\n" /\ quote = "\"" THEN [i |-> i, closed |-> FALSE]
             ELSE string_loop(t, i + 1, quote)
    ELSE [i |-> i, closed |-> FALSE]

\* (length, is_string, is_error)
match_string_or_char(t, p) ==
    IF p >= Len(t) \/ At(t, p) \notin {"'", "\""}
    THEN <<0, FALSE, FALSE>>
    ELSE LET quote == At(t, p)
             r     == string_loop(t, p + 1, quote)
         IN  IF r.closed
             THEN <<r.i - p + 1, quote = "\"", FALSE>>
             ELSE <<Max(1, r.i - p), quote = "\"", TRUE>>

(***************************************************************************)
(* service/matcher.py: class Trie, as Lexer.__init__ fills it.  A node is  *)
(* named by the string that leads to it from the root.                     *)
(***************************************************************************)
SeqRange(s) == {s[k] : k \in 1..Len(s)}

Prefixes(s) == {SubSeq(s, 1, k) : k \in 0..Len(s)}

\* the nodes Trie.add creates for the operators, then the delimiters
TrieNodes ==
    UNION {Prefixes(s) : s \in SeqRange(OPERATORS) \cup SeqRange(DELIMITERS)}

\* the nodes with node["end"]
TrieEnd(s) == s \in SeqRange(OPERATORS) \/ s \in SeqRange(DELIMITERS)

\* node["tag"]: the delimiters are added after the operators
TrieTag(s) == IF s \in SeqRange(DELIMITERS) THEN "DL" ELSE "OP"

\* the loop of Trie.match_longest from offset i; last is last_hit's end
\* offset, -1 for None
RECURSIVE trie_walk(_, _, _, _)
trie_walk(t, p, i, last) ==
    IF i < Len(t) /\ Slice(t, p, i + 1) \in TrieNodes
    THEN trie_walk(t, p, i + 1,
                   IF TrieEnd(Slice(t, p, i + 1)) THEN i + 1 ELSE last)
    ELSE last

\* (lexeme, tag); tag "NONE" stands for (None, None)
match_longest(t, p) ==
    LET e == trie_walk(t, p, p, -1)
    IN  IF e = -1
        THEN [lex |-> <<>>, tag |-> "NONE"]
        ELSE [lex |-> Slice(t, p, e), tag |-> TrieTag(Slice(t, p, e))]

(***************************************************************************)
(* service/lexer.py: class Lexer.  A lexer position is the record          *)
(* [pos, line, col]; the text never changes.                               *)
(***************************************************************************)
NumTypes == {"FLOAT", "NUM16", "NUM8", "NUM10"}

RECURSIVE advance_chars(_, _, _)
advance_chars(ln, cl, s) ==
    IF s = <<>> THEN <<ln, cl>>
    ELSE IF Head(s) = "\n" THEN advance_chars(ln + 1, 1, Tail(s))
    ELSE advance_chars(ln, cl + 1, Tail(s))

\* a mutant of _advance: a line feed is counted as one more column
advance_no_newline(st, s) ==
    [pos |-> st.pos + Len(s), line |-> st.line, col |-> st.col + Len(s)]

\* Lexer._advance
advance(st, s) ==
    LET lc == advance_chars(st.line, st.col, s)
    IN  [pos |-> st.pos + Len(s), line |-> lc[1], col |-> lc[2]]

\* Lexer._peek
peek(t, st, k) == Slice(t, st.pos, st.pos + k)

\* str.find(pat, i): the first offset >= i where pat occurs, or -1
RECURSIVE find(_, _, _)
find(t, pat, i) ==
    IF i + Len(pat) > Len(t) THEN -1
    ELSE IF Slice(t, i, i + Len(pat)) = pat THEN i
    ELSE find(t, pat, i + 1)

\* what a call of next_token returns, with the position it leaves the
\* lexer in and the offset of the token's first character
Emit(st, ty, lex) ==
    [tok |-> Token(ty, lex, st.line, st.col), st |-> advance(st, lex),
     start |-> st.pos]

\* Lexer._skip_ws: the position after the call
skip_ws(t, st) ==
    LET w == match_whitespace(t, st.pos)
    IN  IF w > 0 THEN advance(st, Slice(t, st.pos, st.pos + w)) ELSE st

\* Lexer._skip_comments: kind is "true", "false" or "token"
skip_comments(t, st) ==
    IF peek(t, st, 2) = <<"/", "*">>
    THEN LET end == find(t, <<"*", "/">>, st.pos + 2)
         IN  IF end = -1
             THEN [kind |-> "token",
                   res  |-> Emit(st, "ERROR", Slice(t, st.pos, Len(t)))]
             ELSE [kind |-> "true",
                   res  |-> Emit(st, "CM", Slice(t, st.pos, end + 2))]
    ELSE IF peek(t, st, 2) = <<"/", "/">>
    THEN LET j == find(t, <<"\n">>, st.pos)
         IN  [kind |-> "true",
              res  |-> Emit(st, "CM", Slice(t, st.pos,
                                            IF j = -1 THEN Len(t) ELSE j))]
    ELSE [kind |-> "false", res |-> Emit(st, "CM", <<>>)]

\* the `while progressed` loop of next_token
RECURSIVE skip_loop(_, _)
skip_loop(t, st) ==
    LET s1 == skip_ws(t, st)
        cm == skip_comments(t, s1)
    IN  IF cm.kind = "token" THEN cm
        ELSE IF s1 # st \/ cm.kind = "true" THEN skip_loop(t, cm.res.st)
        ELSE cm

\* a _try_string_or_char that moves pos by the length the matcher returned
\* instead of by the length of the lexeme sliced from the text
try_string_or_char_by_length(t, st) ==
    LET m      == match_string_or_char(t, st.pos)
        length == m[1]
        lex    == Slice(t, st.pos, st.pos + length)
        e      == Emit(st, IF m[3] THEN "ERROR"
                           ELSE IF m[2] THEN "CS_STR" ELSE "CS_CHAR", lex)
    IN  IF length = 0
        THEN [hit |-> FALSE, res |-> Emit(st, "NONE", <<>>)]
        ELSE [hit |-> TRUE,
              res |-> [e EXCEPT !.st.pos = st.pos + length]]

\* Lexer._try_string_or_char: hit is FALSE for None
try_string_or_char(t, st) ==
    LET m      == match_string_or_char(t, st.pos)
        length == m[1]
        lex    == Slice(t, st.pos, st.pos + length)
    IN  IF length = 0
        THEN [hit |-> FALSE, res |-> Emit(st, "NONE", <<>>)]
        ELSE [hit |-> TRUE,
              res |-> Emit(st, IF m[3] THEN "ERROR"
                               ELSE IF m[2] THEN "CS_STR" ELSE "CS_CHAR", lex)]

\* the candidate list of next_token at offset p, entries (length, type);
\* the identifier/keyword candidate has the type None
Cand(L, ty) == IF L > 0 THEN << <<L, ty>> >> ELSE <<>>

candidates(t, p) ==
    LET op == match_longest(t, p)
    IN  Cand(match_float(t, p), "FLOAT")
        \o Cand(match_hex_int(t, p), "NUM16")
        \o Cand(match_oct_int(t, p), "NUM8")
        \o Cand(match_dec_int(t, p), "NUM10")
        \o (IF op.tag # "NONE"
            THEN << <<Len(op.lex), IF op.tag = "OP" THEN "OP" ELSE "DL">> >>
            ELSE <<>>)
        \o Cand(match_identifier(t, p), "None")

\* a mutant of pri: an identifier outranks an operator, an operator a number
pri_reversed(entry) ==
    <<entry[1], IF entry[2] \in NumTypes THEN 1
                ELSE IF entry[2] \in {"OP", "DL"} THEN 2 ELSE 3>>

\* the key function pri of next_token
pri(entry) ==
    <<entry[1], IF entry[2] \in NumTypes THEN 3
                ELSE IF entry[2] \in {"OP", "DL"} THEN 2 ELSE 1>>

\* the order of Python tuples (l, p)
KeyLess(a, b) == a[1] < b[1] \/ (a[1] = b[1] /\ a[2] < b[2])

\* max(candidates, key=pri): the first entry whose key is maximal
RECURSIVE max_from(_, _, _)
max_from(c, k, best) ==
    IF k > Len(c) THEN best
    ELSE max_from(c, k + 1, IF KeyLess(pri(best), pri(c[k])) THEN c[k] ELSE best)

max_pri(c) == max_from(c, 2, c[1])

\* next_token from the pick on: the fix-ups of a leading 0, the bad-suffix
\* check and the keyword lookup
after_pick(t, st, L0, ty0) ==
    LET n    == Len(t)
        p    == st.pos
        j    == p + 1
        zero == ty0 = "NUM10" /\ Slice(t, p, p + L0) = <<"0">>
    IN  IF zero /\ j < n /\ At(t, j) \in {"x", "X"} /\ match_hex_int(t, p) = 0
        THEN LET k == while_pred(t, j + 1, IdContinueChars)
             IN  Emit(st, "ERROR",
                      IF k > j + 1 THEN Slice(t, p, k) ELSE Slice(t, p, j + 1))
        ELSE IF zero /\ j < n /\ At(t, j) \notin {"x", "X"}
                /\ At(t, j) \notin OctChars /\ At(t, j) \in {"8", "9"}
        THEN Emit(st, "ERROR",
                  Slice(t, p, while_pred(t, j + 1, IdContinueChars)))
        ELSE LET fix == IF zero /\ j < n /\ At(t, j) \in {"x", "X"}
                        THEN <<match_hex_int(t, p), "NUM16">>
                        ELSE IF zero /\ j < n /\ At(t, j) \in OctChars
                                /\ match_oct_int(t, p) > 0
                        THEN <<match_oct_int(t, p), "NUM8">>
                        ELSE <<L0, ty0>>
                 L   == fix[1]
                 ty  == fix[2]
                 lex == Slice(t, p, p + L)
                 e   == p + L
             IN  IF ty \in NumTypes /\ e < n /\ is_id_continue(At(t, e))
                 THEN Emit(st, "ERROR",
                           Slice(t, p, while_pred(t, e, IdContinueChars)))
                 ELSE IF ty = "None"
                 THEN Emit(st, IF lex \in KEYWORDS THEN "RW" ELSE "ID", lex)
                 ELSE Emit(st, ty, lex)

\* a mutant of bad_char: the error token swallows the next character too
bad_char_two(t, st) == Emit(st, "ERROR", Slice(t, st.pos, st.pos + 2))

\* next_token when the candidate list is empty: `bad = self.text[self.pos]`
bad_char(t, st) == Emit(st, "ERROR", <<At(t, st.pos)>>)

\* Lexer.next_token
next_token(t, st0) ==
    LET sk == skip_loop(t, st0)
        st == sk.res.st
    IN  IF sk.kind = "token" THEN sk.res
        ELSE IF st.pos >= Len(t) THEN Emit(st, "EOF", <<>>)
        ELSE LET sc == try_string_or_char(t, st)
             IN  IF sc.hit THEN sc.res
                 ELSE IF peek(t, st, 1) = <<"#">> THEN Emit(st, "DL", <<"#">>)
                 ELSE LET c == candidates(t, st.pos)
                      IN  IF c = <<>>
                          THEN bad_char(t, st)
                          ELSE LET w == max_pri(c)
                               IN  after_pick(t, st, w[1], w[2])

(***************************************************************************)
(* The texts the lexer is run on.                                          *)
(***************************************************************************)
Alphabet ==
    {"0", "1", "9", "x", "e", "_", ".", "+", "=", "/", "*", "#", "@",
     "\"", "'", "\\", "\n", " "}

NumAlphabet == {"0", "1", "9", ".", "e", "x", "+"}

StringsUpTo(A, n) == UNION {[1..k -> A] : k \in 0..n}

\* the inputs the specification names
SpecExamples ==
    { <<"1", "2", "3", "a", "b", "c">>, <<"0", "x">>,
      <<"0", "x", "5", "B", "T">>, <<"0", "1", "2", "t">>, <<"0", "9">>,
      <<"i", "n", "t", " ", "1", "x", ";">>,
      <<"i", "n", "t", " ", "x", "@", ";">> }

Texts ==
    StringsUpTo(Alphabet, MaxLen) \cup StringsUpTo(NumAlphabet, MaxNumLen)
        \cup SpecExamples

(***************************************************************************)
(* The lexer as a state machine: one action, a call of next_token.         *)
(***************************************************************************)
IdleMatch == [fn |-> "none", text |-> <<>>, pos |-> 0, res |-> <<>>]

\* no grammar is under analysis
IdleGrammar ==
    /\ prods = <<>> /\ nonterminals = {} /\ terminals = {}
    /\ first = <<>> /\ follow = <<>>
    /\ changed = FALSE /\ phase = "idle"
    /\ start_symbol = ""
    /\ select = <<>> /\ table = <<>> /\ conflicts = <<>>
    /\ allow_conflict = TRUE /\ raised = <<>>
    /\ source = <<>> /\ tokens = <<>> /\ cursor = 0
    /\ stack = <<>> /\ tree = <<>> /\ type_names = {}
    /\ matched = <<>> /\ outcome = "none" /\ ast = <<>>

\* Python's None
None == "<None>"

\* main was given a source file that exists and has not exited
IdleMain == args_source = "source.c" /\ exit_status = <<>>

\* the recursive-descent parser is not run
IdleRD == rd_tokens = <<>> /\ rd_result = <<>>

InitLex ==
    /\ text \in Texts
    /\ pos = 0 /\ line = 1 /\ col = 1
    /\ tok = NoToken
    /\ start = 0
    /\ mcall = IdleMatch
    /\ cands = <<>> /\ winner = <<>>
    /\ IdleGrammar
    /\ IdleMain
    /\ IdleRD

NextToken ==
    LET r == next_token(text, [pos |-> pos, line |-> line, col |-> col])
    IN  /\ tok' = r.tok
        /\ start' = r.start
        /\ pos' = r.st.pos
        /\ line' = r.st.line
        /\ col' = r.st.col
        /\ UNCHANGED <<text, mcall, priVars, ffVars, tblVars, parseVars, mainVars, rdVars>>

NextLex == NextToken

SpecLex == InitLex /\ [][NextLex]_vars

(***************************************************************************)
(* The character matchers as pure functions: a call is drawn, then one     *)
(* matcher is applied to it.                                               *)
(***************************************************************************)
StrAlphabet == {"\"", "'", "\\", "\n", "a"}

MatchTexts ==
    StringsUpTo(NumAlphabet, MaxNumLen) \cup StringsUpTo(StrAlphabet, MaxLen)

InitMatch ==
    /\ \E t \in MatchTexts : \E p \in 0..Len(t) :
           mcall = [fn |-> "none", text |-> t, pos |-> p, res |-> <<>>]
    /\ text = <<>> /\ pos = 0 /\ line = 1 /\ col = 1
    /\ tok = NoToken /\ start = 0
    /\ cands = <<>> /\ winner = <<>>
    /\ IdleGrammar
    /\ IdleMain
    /\ IdleRD

Apply(fn, res) ==
    /\ mcall.fn = "none"
    /\ mcall' = [mcall EXCEPT !.fn = fn, !.res = res]
    /\ UNCHANGED <<lexVars, priVars, ffVars, tblVars, parseVars, mainVars, rdVars>>

CallMatchWhitespace ==
    Apply("match_whitespace", match_whitespace(mcall.text, mcall.pos))
CallMatchIdentifier ==
    Apply("match_identifier", match_identifier(mcall.text, mcall.pos))
CallMatchFloat ==
    Apply("match_float", match_float(mcall.text, mcall.pos))
CallMatchHexInt ==
    Apply("match_hex_int", match_hex_int(mcall.text, mcall.pos))
CallMatchOctInt ==
    Apply("match_oct_int", match_oct_int(mcall.text, mcall.pos))
CallMatchDecInt ==
    Apply("match_dec_int", match_dec_int(mcall.text, mcall.pos))
CallMatchStringOrChar ==
    Apply("match_string_or_char", match_string_or_char(mcall.text, mcall.pos))
CallMatchLongest ==
    Apply("match_longest", match_longest(mcall.text, mcall.pos))

NextMatch ==
    \/ CallMatchWhitespace
    \/ CallMatchIdentifier
    \/ CallMatchFloat
    \/ CallMatchHexInt
    \/ CallMatchOctInt
    \/ CallMatchDecInt
    \/ CallMatchStringOrChar
    \/ CallMatchLongest

SpecMatch == InitMatch /\ [][NextMatch]_vars

(***************************************************************************)
(* The longest-match selection of next_token as a pure function of its     *)
(* candidate list.  The list is built in the order of the source: float,   *)
(* hex, octal, decimal, operator/delimiter, identifier; an entry is there  *)
(* when its matcher returned a length > 0.                                 *)
(***************************************************************************)
MaxCandLen == 2   \* candidate lengths are 1..MaxCandLen

CandSlot(tys) == {<<>>} \cup {<< <<L, ty>> >> : L \in 1..MaxCandLen, ty \in tys}

CandLists ==
    {f \o h \o o \o d \o p \o i :
        f \in CandSlot({"FLOAT"}), h \in CandSlot({"NUM16"}),
        o \in CandSlot({"NUM8"}), d \in CandSlot({"NUM10"}),
        p \in CandSlot({"OP", "DL"}), i \in CandSlot({"None"})} \ {<<>>}

InitPri ==
    /\ cands \in CandLists
    /\ winner = <<>>
    /\ text = <<>> /\ pos = 0 /\ line = 1 /\ col = 1
    /\ tok = NoToken /\ start = 0
    /\ mcall = IdleMatch
    /\ IdleGrammar
    /\ IdleMain
    /\ IdleRD

\* `L, ttype = max(candidates, key=pri)`
PickWinner ==
    /\ winner = <<>>
    /\ winner' = max_pri(cands)
    /\ UNCHANGED <<cands, lexVars, mcall, ffVars, tblVars, parseVars, mainVars, rdVars>>

NextPri == PickWinner

SpecPri == InitPri /\ [][NextPri]_vars

(***************************************************************************)
(* The lexeme classes as the specification words them, written without     *)
(* the matchers: what a claim about the lexer is measured against.         *)
(***************************************************************************)
AllIn(s, a, b, S) == \A k \in a..b : s[k] \in S

RefIdentifier(s) ==
    Len(s) >= 1 /\ s[1] \in IdStartChars /\ AllIn(s, 2, Len(s), IdContinueChars)

RefDecInt(s) ==
    \/ s = <<"0">>
    \/ Len(s) >= 1 /\ s[1] \in DigitChars \ {"0"} /\ AllIn(s, 2, Len(s), DigitChars)

RefOctInt(s) == Len(s) >= 2 /\ s[1] = "0" /\ AllIn(s, 2, Len(s), OctChars)

RefHexInt(s) ==
    Len(s) >= 3 /\ s[1] = "0" /\ s[2] \in {"x", "X"} /\ AllIn(s, 3, Len(s), HexChars)

\* s[a..] is [eE][+-]?digits with at least one digit
RefExponent(s, a) ==
    /\ a <= Len(s) /\ s[a] \in {"e", "E"}
    /\ LET b == IF a + 1 <= Len(s) /\ s[a + 1] \in {"+", "-"} THEN a + 2 ELSE a + 1
       IN  b <= Len(s) /\ AllIn(s, b, Len(s), DigitChars)

\* digits '.' digits, then an optional exponent
RefFloat(s) ==
    \E d \in 2..Len(s) - 1 :
        /\ s[d] = "." /\ AllIn(s, 1, d - 1, DigitChars)
        /\ \E m \in d + 1..Len(s) :
              /\ AllIn(s, d + 1, m, DigitChars)
              /\ (m = Len(s) \/ RefExponent(s, m + 1))

RefOpOrDelim(s) == s \in SeqRange(OPERATORS) \cup SeqRange(DELIMITERS)

RefNumeric(s) == RefFloat(s) \/ RefHexInt(s) \/ RefOctInt(s) \/ RefDecInt(s)

RefLexeme(s) == RefNumeric(s) \/ RefOpOrDelim(s) \/ RefIdentifier(s)

\* the length of the longest prefix of t at offset p that satisfies the
\* class P, 0 when there is none
LongestAt(t, p, P(_)) ==
    LET ks == {k \in 1..Len(t) - p : P(Slice(t, p, p + k))}
    IN  IF ks = {} THEN 0 ELSE CHOOSE k \in ks : \A m \in ks : m <= k

\* the 1-based line and column of offset i of t
LineOf(t, i) == 1 + Cardinality({k \in 1..i : t[k] = "\n"})
ColOf(t, i) ==
    LET nl == {k \in 1..i : t[k] = "\n"}
    IN  IF nl = {} THEN i + 1
        ELSE i + 1 - (CHOOSE k \in nl : \A m \in nl : m <= k)

\* a call of next_token has returned
Returned == tok.type # "NONE"

(***************************************************************************)
(* C1  Longest match: the lexeme of every non-error token next_token       *)
(* returns is the text at the token's start, and no longer prefix of the   *)
(* remaining input at that offset is a lexeme of any class (float, hex,    *)
(* octal or decimal integer, operator/delimiter, identifier).              *)
(***************************************************************************)
C1_LongestMatch ==
    (Returned /\ tok.type \notin {"ERROR", "EOF"}) =>
        /\ tok.lexeme = Slice(text, start, start + Len(tok.lexeme))
        /\ \A k \in Len(tok.lexeme) + 1..Len(text) - start :
              ~RefLexeme(Slice(text, start, start + k))

(***************************************************************************)
(* C2  Bad suffix: when the numeric lexeme at the token's start (the       *)
(* longest one) is immediately followed by an identifier-continue          *)
(* character, next_token returns one ERROR token made of the numeric       *)
(* characters and the whole identifier-continue run after them; and each   *)
(* of 123abc, 0x, 0x5BT, 012t, 09 is one ERROR token spanning the input.   *)
(***************************************************************************)
BadSuffixInputs ==
    { <<"1", "2", "3", "a", "b", "c">>, <<"0", "x">>,
      <<"0", "x", "5", "B", "T">>, <<"0", "1", "2", "t">>, <<"0", "9">> }

C2_BadSuffix ==
    /\ Returned =>
         LET L == LongestAt(text, start, RefNumeric)
             e == start + L
         IN  (L > 0 /\ e < Len(text) /\ At(text, e) \in IdContinueChars) =>
                /\ tok.type = "ERROR"
                /\ tok.lexeme =
                       Slice(text, start, while_pred(text, e, IdContinueChars))
                /\ pos = start + Len(tok.lexeme)
    /\ (Returned /\ text \in BadSuffixInputs) =>
          tok.type \in {"ERROR", "EOF"} /\ pos = Len(text)
    /\ (Returned /\ text \in BadSuffixInputs /\ tok.type = "ERROR") =>
          tok.lexeme = text

(***************************************************************************)
(* C3  match_float returns the length of the longest prefix at pos of the  *)
(* form digits '.' digits [exponent], and 0 only when there is none.       *)
(***************************************************************************)
C3_MatchFloatLongest ==
    mcall.fn = "match_float" =>
        mcall.res = LongestAt(mcall.text, mcall.pos, RefFloat)

(***************************************************************************)
(* C4  match_string_or_char returns a length within the text:              *)
(* 0 <= length <= len(text) - pos, unterminated literals included.         *)
(***************************************************************************)
C4_StringLengthInText ==
    mcall.fn = "match_string_or_char" =>
        /\ 0 <= mcall.res[1]
        /\ mcall.res[1] <= Len(mcall.text) - mcall.pos

(***************************************************************************)
(* C5  A character that starts no string/char literal, number,             *)
(* operator/delimiter (the special-cased # included) or identifier gives   *)
(* one ERROR token holding exactly that character, at that character's     *)
(* line and column; the lexer moves one character on, and no call begins   *)
(* a token before the offset the previous call stopped at.                 *)
(***************************************************************************)
TrieFirstChars == {s[1] : s \in SeqRange(OPERATORS) \cup SeqRange(DELIMITERS)}

Unrecognized(c) ==
    c \notin {"\"", "'", "#"} \cup DigitChars \cup IdStartChars
                 \cup TrieFirstChars \cup WHITESPACE

C5_BadCharOneToken ==
    [][ /\ start' >= pos
        /\ (start' < Len(text) /\ Unrecognized(At(text, start'))) =>
              /\ tok' = Token("ERROR", <<At(text, start')>>,
                              LineOf(text, start'), ColOf(text, start'))
              /\ pos' = start' + 1 ]_vars

\* an unrecognized character in the middle of a text has been returned
C5_Witness ==
    /\ Returned /\ start > 0 /\ pos < Len(text)
    /\ Unrecognized(At(text, start))
    /\ tok.type = "ERROR" /\ pos = start + 1

(***************************************************************************)
(* C6  (line, col) is always the 1-based line and column of offset pos,    *)
(* and every returned token (ERROR and EOF too) carries the line and       *)
(* column of its first character; the error token of `int 1x;` is 1x at    *)
(* column 5 and the one of `int x@;` is @ at column 6.                     *)
(***************************************************************************)
C6_LineColTrackPos ==
    /\ line = LineOf(text, pos)
    /\ col = ColOf(text, pos)
    /\ Returned => /\ tok.line = LineOf(text, start)
                   /\ tok.col = ColOf(text, start)
    /\ (text = <<"i", "n", "t", " ", "1", "x", ";">> /\ tok.type = "ERROR") =>
          tok.lexeme = <<"1", "x">> /\ tok.line = 1 /\ tok.col = 5
    /\ (text = <<"i", "n", "t", " ", "x", "@", ";">> /\ tok.type = "ERROR") =>
          tok.lexeme = <<"@">> /\ tok.line = 1 /\ tok.col = 6

\* a token on the second line, not in its first column
C6_Witness ==
    /\ Returned /\ tok.type \notin {"EOF"}
    /\ tok.line = 2 /\ tok.col = 2 /\ line = 2 /\ col = 3

(***************************************************************************)
(* C7  Among the candidates of maximal length the selection takes a        *)
(* numeric one if there is any, else an operator/delimiter one if there    *)
(* is any, else the identifier/keyword one.                                *)
(***************************************************************************)
Longest(c) == {c[k] : k \in {k \in 1..Len(c) : \A m \in 1..Len(c) : c[m][1] <= c[k][1]}}

C7_TiePriority ==
    winner # <<>> =>
        LET tied == Longest(cands)
            num  == {e \in tied : e[2] \in NumTypes}
            opdl == {e \in tied : e[2] \in {"OP", "DL"}}
        IN  /\ winner \in tied
            /\ num # {} => winner \in num
            /\ (num = {} /\ opdl # {}) => winner \in opdl

\* a pick among a numeric, an operator and an identifier of one length
C7_Witness ==
    /\ winner # <<>>
    /\ \E e \in Longest(cands) : e[2] \in NumTypes
    /\ \E e \in Longest(cands) : e[2] \in {"OP", "DL"}
    /\ \E e \in Longest(cands) : e[2] = "None"

(***************************************************************************)
(* service/grammer.py: class Grammar.  A production is [head, body].       *)
(***************************************************************************)
EPSILON    == "epsilon"   \* the reserved empty-string symbol
END_SYMBOL == "EOF"

Production(head, body) == [head |-> head, body |-> body]

\* Grammar.add: the production appended for (head, body); an empty body
\* stands for epsilon
add(head, body) == Production(head, IF body = <<>> THEN <<EPSILON>> ELSE body)

\* a finalize that does not take epsilon out of the body symbols
finalize_keeps_epsilon(ps, nts) ==
    LET symbols == UNION {SeqRange(ps[k].body) : k \in 1..Len(ps)}
    IN  {s \in symbols : s \notin nts} \cup {END_SYMBOL}

\* Grammar.finalize: the terminals of the productions ps with heads nts
finalize(ps, nts) ==
    LET symbols == UNION {SeqRange(ps[k].body) : k \in 1..Len(ps)}
    IN  {s \in symbols : s \notin nts /\ s # EPSILON} \cup {END_SYMBOL}

(***************************************************************************)
(* service/first_follow.py.  T is grammar.terminals, N is                  *)
(* grammar.nonterminals, fs the FIRST sets, fl the FOLLOW sets.            *)
(***************************************************************************)
\* the loop of first_of_sequence from the k-th symbol on, result so far acc
RECURSIVE first_of_sequence_loop(_, _, _, _, _)
first_of_sequence_loop(seq, k, fs, T, acc) ==
    IF k > Len(seq) THEN acc \cup {EPSILON}
    ELSE LET sym       == seq[k]
             sym_first == IF sym \in T \/ sym = EPSILON THEN {sym} ELSE fs[sym]
         IN  IF EPSILON \notin sym_first
             THEN acc \cup (sym_first \ {EPSILON})
             ELSE first_of_sequence_loop(seq, k + 1, fs, T,
                                         acc \cup (sym_first \ {EPSILON}))

first_of_sequence(seq, fs, T) == first_of_sequence_loop(seq, 1, fs, T, {})

\* compute_first_sets: alpha_first of one body, from its k-th symbol on
RECURSIVE alpha_first_loop(_, _, _, _, _)
alpha_first_loop(alpha, k, fs, T, acc) ==
    IF k > Len(alpha) THEN acc \cup {EPSILON}
    ELSE LET X    == alpha[k]
             acc1 == IF X \in T \/ X = EPSILON
                     THEN acc \cup {X}
                     ELSE acc \cup (fs[X] \ {EPSILON})
                              \cup (IF EPSILON \in fs[X] THEN {EPSILON} ELSE {})
         IN  IF X = EPSILON \/ (X \notin T /\ EPSILON \in fs[X])
             THEN alpha_first_loop(alpha, k + 1, fs, T, acc1)
             ELSE acc1

\* compute_first_sets: the body of `for prod in grammar.productions` for
\* one production, on the sets and the flag r = [sets, changed]
first_step(prod, r, T) ==
    LET fs  == r.sets
        A   == prod.head
        af  == alpha_first_loop(prod.body, 1, fs, T, {})
        new == fs[A] \cup (af \ {EPSILON})
                     \cup (IF EPSILON \in af THEN {EPSILON} ELSE {})
    IN  [sets    |-> [fs EXCEPT ![A] = new],
         changed |-> r.changed \/ Cardinality(new) # Cardinality(fs[A])]

\* the loop over the productions lo..hi in order.  The range is walked by
\* halves, the second half from the value the first half left: the result
\* is the loop's, and the evaluation stays shallow for a long grammar.
RECURSIVE first_pass_range(_, _, _, _, _)
first_pass_range(ps, lo, hi, r, T) ==
    IF lo > hi THEN r
    ELSE IF lo = hi THEN first_step(ps[lo], r, T)
    ELSE LET mid == (lo + hi) \div 2
         IN  CHOOSE out \in {first_pass_range(ps, mid + 1, hi, left, T) :
                                left \in {first_pass_range(ps, lo, mid, r, T)}} :
                 TRUE

\* compute_first_sets: the `for prod in grammar.productions` loop from the
\* k-th production on
first_pass_loop(ps, k, fs, ch, T) ==
    first_pass_range(ps, k, Len(ps), [sets |-> fs, changed |-> ch], T)

\* a mutant of the pass: `changed = True` is forgotten
first_pass_unflagged(ps, fs, T) ==
    [sets |-> first_pass_loop(ps, 1, fs, FALSE, T).sets, changed |-> FALSE]

\* a pass that sets `changed` whether or not a set grew
first_pass_flagged(ps, fs, T) ==
    [sets |-> first_pass_loop(ps, 1, fs, FALSE, T).sets, changed |-> TRUE]

\* one iteration of `while changed` in compute_first_sets
first_pass(ps, fs, T) == first_pass_loop(ps, 1, fs, FALSE, T)

\* compute_follow_sets: the `for i, B in enumerate(body)` loop of one
\* production from the i-th symbol on
RECURSIVE follow_body_loop(_, _, _, _, _, _, _)
follow_body_loop(prod, i, fs, fl, ch, T, N) ==
    IF i > Len(prod.body) THEN [sets |-> fl, changed |-> ch]
    ELSE LET A    == prod.head
             B    == prod.body[i]
             beta == SubSeq(prod.body, i + 1, Len(prod.body))
         IN  IF B \notin N
             THEN follow_body_loop(prod, i + 1, fs, fl, ch, T, N)
             ELSE LET first_beta == first_of_sequence(beta, fs, T)
                      new == IF beta # <<>>
                             THEN fl[B] \cup (first_beta \ {EPSILON})
                                        \cup (IF EPSILON \in first_beta
                                              THEN fl[A] ELSE {})
                             ELSE fl[B] \cup fl[A]
                  IN  follow_body_loop(prod, i + 1, fs, [fl EXCEPT ![B] = new],
                          ch \/ Cardinality(new) # Cardinality(fl[B]), T, N)

\* the loop over the productions lo..hi in order, walked by halves
RECURSIVE follow_pass_range(_, _, _, _, _, _, _)
follow_pass_range(ps, lo, hi, fs, r, T, N) ==
    IF lo > hi THEN r
    ELSE IF lo = hi
         THEN follow_body_loop(ps[lo], 1, fs, r.sets, r.changed, T, N)
    ELSE LET mid == (lo + hi) \div 2
         IN  CHOOSE out \in {follow_pass_range(ps, mid + 1, hi, fs, left, T, N) :
                                left \in {follow_pass_range(ps, lo, mid, fs, r, T, N)}} :
                 TRUE

\* compute_follow_sets: the `for prod in grammar.productions` loop from the
\* k-th production on
follow_pass_loop(ps, k, fs, fl, ch, T, N) ==
    follow_pass_range(ps, k, Len(ps), fs, [sets |-> fl, changed |-> ch], T, N)

\* one iteration of `while changed` in compute_follow_sets
follow_pass(ps, fs, fl, T, N) == follow_pass_loop(ps, 1, fs, fl, FALSE, T, N)

\* compute_follow_sets up to its loop: the sets it starts from
follow_init_empty(N) == [nt \in N |-> {}]

follow_init(N) ==
    [nt \in N |-> IF nt = start_symbol THEN {END_SYMBOL} ELSE {}]

(***************************************************************************)
(* A dict is the sequence of its items [key, value] in insertion order:    *)
(* assigning to a key already present keeps the key's place.               *)
(***************************************************************************)
dict_keys(d) == {d[i].key : i \in 1..Len(d)}

dict_get(d, k) == d[CHOOSE i \in 1..Len(d) : d[i].key = k].value

\* a mutant of dict_set: a new key is put in front of the older ones
dict_set_front(d, k, v) ==
    IF k \in dict_keys(d)
    THEN [i \in 1..Len(d) |-> IF d[i].key = k THEN [key |-> k, value |-> v]
                                              ELSE d[i]]
    ELSE <<[key |-> k, value |-> v]>> \o d

dict_set(d, k, v) ==
    IF k \in dict_keys(d)
    THEN [i \in 1..Len(d) |-> IF d[i].key = k THEN [key |-> k, value |-> v]
                                              ELSE d[i]]
    ELSE Append(d, [key |-> k, value |-> v])

\* mutants of the body of compute_select_sets's loop: FOLLOW(A) is never
\* added; epsilon is not removed
select_of_first_only(prod, fs, fl, T) ==
    first_of_sequence(prod.body, fs, T) \ {EPSILON}

select_of_keeps_epsilon(prod, fs, fl, T) ==
    LET first_alpha == first_of_sequence(prod.body, fs, T)
    IN  first_alpha \cup (IF EPSILON \in first_alpha THEN fl[prod.head] ELSE {})

\* compute_select_sets: the set `sel` its loop builds for one production
select_of(prod, fs, fl, T) ==
    LET first_alpha == first_of_sequence(prod.body, fs, T)
    IN  (first_alpha \ {EPSILON})
            \cup (IF EPSILON \in first_alpha THEN fl[prod.head] ELSE {})

\* the loop over the productions lo..hi in order, walked by halves
RECURSIVE compute_select_range(_, _, _, _, _, _, _)
compute_select_range(ps, lo, hi, fs, fl, T, sel) ==
    IF lo > hi THEN sel
    ELSE IF lo = hi
         THEN dict_set(sel, ps[lo], select_of(ps[lo], fs, fl, T))
    ELSE LET mid == (lo + hi) \div 2
         IN  CHOOSE out \in {compute_select_range(ps, mid + 1, hi, fs, fl, T, left) :
                                left \in {compute_select_range(ps, lo, mid, fs, fl, T, sel)}} :
                 TRUE

\* compute_select_sets: the `for prod in grammar.productions` loop from the
\* k-th production on
compute_select_loop(ps, k, fs, fl, T, sel) ==
    compute_select_range(ps, k, Len(ps), fs, fl, T, sel)

compute_select_sets(ps, fs, fl, T) == compute_select_loop(ps, 1, fs, fl, T, <<>>)

(***************************************************************************)
(* service/parse_table.py: ParseTable.from_grammar.  The table is a        *)
(* function from the filled cells <<A, a>> to productions.  `for a in sel` *)
(* walks a set, in an order the language does not fix: the cells written   *)
(* do not depend on it, the order of the messages of one production does,  *)
(* and so does the message a strict build fails with.                      *)
(***************************************************************************)
\* the conflict message: it names the cell, the production the cell holds
\* and the production met
message_had_only(A, a, had, saw) ==
    [head |-> A, terminal |-> a, had |-> had, saw |-> had]

Message(A, a, had, saw) == [head |-> A, terminal |-> a, had |-> had, saw |-> saw]

\* a mutant: no cell is ever seen to hold another production
clash_none(tbl, prod, sel) == {}

\* the terminals of sel whose cell holds a production other than prod
clash(tbl, prod, sel) ==
    {a \in sel \ {EPSILON} :
        <<prod.head, a>> \in DOMAIN tbl /\ tbl[<<prod.head, a>>] # prod}

\* mutants: the later production overwrites the cell; the EOF cell of the
\* row is written whatever sel holds
fill_overwrite(tbl, prod, sel) ==
    LET cells == {<<prod.head, a>> : a \in sel \ {EPSILON}}
    IN  [c \in DOMAIN tbl \cup cells |-> IF c \in cells THEN prod ELSE tbl[c]]

fill_with_eof(tbl, prod, sel) ==
    LET cells == {<<prod.head, a>> : a \in (sel \cup {END_SYMBOL}) \ {EPSILON}}
    IN  [c \in DOMAIN tbl \cup cells |-> IF c \in DOMAIN tbl THEN tbl[c] ELSE prod]

\* the table after the `for a in sel` loop of prod: `row[a] = prod` for
\* every a that is not epsilon and whose cell is free
fill(tbl, prod, sel) ==
    LET cells == {<<prod.head, a>> : a \in sel \ {EPSILON}}
    IN  [c \in DOMAIN tbl \cup cells |-> IF c \in DOMAIN tbl THEN tbl[c] ELSE prod]

\* the orders a loop can walk the set S in
Orders(S) ==
    {o \in [1..Cardinality(S) -> S] :
        \A i, j \in 1..Cardinality(S) : i # j => o[i] # o[j]}

\* a loop body that leaves the `for a in sel` loop at the first conflict
\* (`break` for `continue`): the cells written are those of the terminals W
\* visited before the conflicting terminal a
from_grammar_step_break(item, r, allow) ==
    LET prod   == item.key
        sel    == item.value
        A      == prod.head
        tbl    == r.table
        cl     == clash(tbl, prod, sel)
        msg(a) == Message(A, a, tbl[<<A, a>>], prod)
    IN  IF r.raised # <<>> THEN {r}
        ELSE IF cl # {} /\ ~allow
        THEN {[table |-> <<>>, conflicts |-> <<>>, raised |-> <<msg(a)>>] :
                 a \in cl}
        ELSE IF cl = {}
        THEN {[table     |-> fill(tbl, prod, sel),
               conflicts |-> r.conflicts,
               raised    |-> <<>>]}
        ELSE UNION {{[table     |-> fill(tbl, prod, W),
                      conflicts |-> Append(r.conflicts, msg(a)),
                      raised    |-> <<>>] : W \in SUBSET (sel \ cl)} :
                       a \in cl}

\* the body of `for prod, sel in select_sets.items()` for one item, from
\* the table and the conflicts list of r: the outcomes it can leave, each
\* the table, the conflicts list and the message raised.  Once the build
\* has raised, the loop is over.
from_grammar_step(item, r, allow) ==
    LET prod   == item.key
        sel    == item.value
        A      == prod.head
        tbl    == r.table
        cl     == clash(tbl, prod, sel)
        msg(a) == Message(A, a, tbl[<<A, a>>], prod)
    IN  IF r.raised # <<>> THEN {r}
        ELSE IF cl # {} /\ ~allow
        THEN {[table |-> <<>>, conflicts |-> <<>>, raised |-> <<msg(a)>>] :
                 a \in cl}
        ELSE {[table     |-> fill(tbl, prod, sel),
               conflicts |-> r.conflicts \o [i \in 1..Len(o) |-> msg(o[i])],
               raised    |-> <<>>] : o \in Orders(cl)}

\* the loop over the items lo..hi in order, walked by halves, from each of
\* the outcomes rs
RECURSIVE from_grammar_range(_, _, _, _, _)
from_grammar_range(items, lo, hi, rs, allow) ==
    IF lo > hi THEN rs
    ELSE IF lo = hi
         THEN UNION {from_grammar_step(items[lo], r, allow) : r \in rs}
    ELSE LET mid == (lo + hi) \div 2
         IN  UNION {from_grammar_range(items, mid + 1, hi, {r}, allow) :
                       r \in from_grammar_range(items, lo, mid, rs, allow)}

\* the outcomes of the loop `for prod, sel in select_sets.items()` from the
\* k-th item on
from_grammar_loop(items, k, tbl, confs, allow) ==
    from_grammar_range(items, k, Len(items),
        {[table |-> tbl, conflicts |-> confs, raised |-> <<>>]}, allow)

from_grammar(items, allow) == from_grammar_loop(items, 1, <<>>, <<>>, allow)

(***************************************************************************)
(* The grammar analysis as a state machine: productions are appended, the  *)
(* grammar is finalized, compute_first_sets runs its passes until none     *)
(* changes a set, then compute_follow_sets does.                           *)
(***************************************************************************)
MaxProds == 3   \* a grammar has at most this many productions
MaxSize  == 4   \* and at most this many body symbols in all

\* a symbol is a nonterminal once it heads a production, a terminal otherwise
GrammarSymbols == {"S", "A", "a"}
GrammarHeads   == {"S", "A"}

RECURSIVE SizeOf(_)
SizeOf(ps) == IF ps = <<>> THEN 0 ELSE Len(Head(ps).body) + SizeOf(Tail(ps))

InitFF ==
    /\ prods = <<>> /\ nonterminals = {} /\ terminals = {}
    /\ first = <<>> /\ follow = <<>>
    /\ changed = FALSE /\ phase = "build"
    /\ start_symbol = "S"
    /\ select = <<>> /\ table = <<>> /\ conflicts = <<>>
    /\ allow_conflict = TRUE /\ raised = <<>>
    /\ source = <<>> /\ tokens = <<>> /\ cursor = 0
    /\ stack = <<>> /\ tree = <<>> /\ type_names = {}
    /\ matched = <<>> /\ outcome = "none" /\ ast = <<>>
    /\ text = <<>> /\ pos = 0 /\ line = 1 /\ col = 1
    /\ tok = NoToken /\ start = 0
    /\ mcall = IdleMatch
    /\ cands = <<>> /\ winner = <<>>
    /\ IdleMain
    /\ IdleRD

\* G.add(head, body)
Add ==
    /\ phase = "build"
    /\ Len(prods) < MaxProds
    /\ \E head \in GrammarHeads :
       \E body \in StringsUpTo(GrammarSymbols, MaxSize - SizeOf(prods)) :
           /\ prods' = Append(prods, add(head, body))
           /\ nonterminals' = nonterminals \cup {head}
    /\ UNCHANGED <<terminals, first, follow, changed, phase,
                   start_symbol,
                   lexVars, mcall, priVars, tblVars, parseVars, mainVars, rdVars>>

\* G.finalize(), on a grammar whose start symbol heads a production
Finalize ==
    /\ phase = "build"
    /\ start_symbol \in nonterminals
    /\ terminals' = finalize(prods, nonterminals)
    /\ phase' = "finalized"
    /\ UNCHANGED <<prods, nonterminals, first, follow, changed,
                   start_symbol,
                   lexVars, mcall, priVars, tblVars, parseVars, mainVars, rdVars>>

\* compute_first_sets up to its loop: every nonterminal gets the empty set
BeginFirst ==
    /\ phase = "finalized"
    /\ first' = [nt \in nonterminals |-> {}]
    /\ changed' = TRUE
    /\ phase' = "first"
    /\ UNCHANGED <<prods, nonterminals, terminals, follow,
                   start_symbol,
                   lexVars, mcall, priVars, tblVars, parseVars, mainVars, rdVars>>

FirstPass ==
    /\ phase = "first" /\ changed
    /\ LET r == first_pass(prods, first, terminals)
       IN  first' = r.sets /\ changed' = r.changed
    /\ UNCHANGED <<prods, nonterminals, terminals, follow, phase,
                   start_symbol,
                   lexVars, mcall, priVars, tblVars, parseVars, mainVars, rdVars>>

\* compute_first_sets returns; compute_follow_sets up to its loop
BeginFollow ==
    /\ phase = "first" /\ ~changed
    /\ follow' = follow_init(nonterminals)
    /\ changed' = TRUE
    /\ phase' = "follow"
    /\ UNCHANGED <<prods, nonterminals, terminals, first,
                   start_symbol,
                   lexVars, mcall, priVars, tblVars, parseVars, mainVars, rdVars>>

FollowPass ==
    /\ phase = "follow" /\ changed
    /\ LET r == follow_pass(prods, first, follow, terminals, nonterminals)
       IN  follow' = r.sets /\ changed' = r.changed
    /\ UNCHANGED <<prods, nonterminals, terminals, first, phase,
                   start_symbol,
                   lexVars, mcall, priVars, tblVars, parseVars, mainVars, rdVars>>

\* compute_follow_sets returns
EndFollow ==
    /\ phase = "follow" /\ ~changed
    /\ phase' = "done"
    /\ UNCHANGED <<prods, nonterminals, terminals, first, follow, changed,
                   start_symbol,
                   lexVars, mcall, priVars, tblVars, parseVars, mainVars, rdVars>>

\* select_sets = compute_select_sets(grammar, first_sets, follow_sets)
ComputeSelect ==
    /\ phase = "done"
    /\ select' = compute_select_sets(prods, first, follow, terminals)
    /\ phase' = "select"
    /\ UNCHANGED <<prods, nonterminals, terminals, first, follow, changed,
                   start_symbol, table, conflicts, allow_conflict, raised,
                   lexVars, mcall, priVars,
                   parseVars, mainVars, rdVars>>

\* ParseTable.from_grammar(grammar, select_sets, allow_conflict), in either
\* mode
BuildTable ==
    /\ phase = "select"
    /\ \E allow \in BOOLEAN : \E r \in from_grammar(select, allow) :
           /\ allow_conflict' = allow
           /\ table' = r.table
           /\ conflicts' = r.conflicts
           /\ raised' = r.raised
    /\ phase' = "table"
    /\ UNCHANGED <<prods, nonterminals, terminals, first, follow, changed,
                   start_symbol, select, lexVars, mcall, priVars,
                   parseVars, mainVars, rdVars>>

NextFF ==
    \/ Add
    \/ Finalize
    \/ BeginFirst
    \/ FirstPass
    \/ BeginFollow
    \/ FollowPass
    \/ EndFollow
    \/ ComputeSelect
    \/ BuildTable

SpecFF == InitFF /\ [][NextFF]_vars

\* the two `while changed` loops run on: a loop whose condition holds
\* executes its next iteration
SpecFFLive ==
    InitFF /\ [][NextFF]_vars /\ WF_vars(FirstPass) /\ WF_vars(FollowPass)

(***************************************************************************)
(* FIRST and FOLLOW as the textbook defines them, computed without the     *)
(* code's passes: nullability first, by itself, then the least sets of     *)
(* terminals closed under the rules.                                       *)
(***************************************************************************)
\* the nonterminals that derive the empty string
RECURSIVE RefNullableFrom(_, _)
RefNullableFrom(ps, S) ==
    LET S2 == S \cup {ps[k].head : k \in {k \in 1..Len(ps) :
                         \A i \in 1..Len(ps[k].body) :
                             ps[k].body[i] \in S \cup {EPSILON}}}
    IN  IF S2 = S THEN S ELSE RefNullableFrom(ps, S2)

RefNullable(ps) == RefNullableFrom(ps, {})

\* every symbol of seq before the i-th derives the empty string
RefNullablePrefix(ps, seq, i) ==
    \A j \in 1..i - 1 : seq[j] \in RefNullable(ps) \cup {EPSILON}

\* the terminals that begin a string derived from seq, given those of the
\* nonterminals (f)
RefFirstOfSeq(ps, N, f, seq) ==
    UNION {IF seq[i] \in N THEN f[seq[i]]
           ELSE IF seq[i] = EPSILON THEN {} ELSE {seq[i]} :
           i \in {i \in 1..Len(seq) : RefNullablePrefix(ps, seq, i)}}

RECURSIVE RefFirstFrom(_, _, _)
RefFirstFrom(ps, N, f) ==
    LET f2 == [A \in N |-> f[A] \cup
                 UNION {RefFirstOfSeq(ps, N, f, ps[k].body) :
                        k \in {k \in 1..Len(ps) : ps[k].head = A}}]
    IN  IF f2 = f THEN f ELSE RefFirstFrom(ps, N, f2)

\* FIRST(A): the terminals, and epsilon iff A is nullable
RefFirst(ps, N) ==
    LET f == RefFirstFrom(ps, N, [A \in N |-> {}])
    IN  [A \in N |-> f[A] \cup (IF A \in RefNullable(ps) THEN {EPSILON} ELSE {})]

\* the places <<k, i>> of the body symbols of ps
Occurrences(ps) ==
    UNION {{<<k, i>> : i \in 1..Len(ps[k].body)} : k \in 1..Len(ps)}

RECURSIVE RefFollowFrom(_, _, _, _)
RefFollowFrom(ps, N, f, g) ==
    LET g2 == [B \in N |-> g[B] \cup
                 UNION {LET body == ps[o[1]].body
                            beta == SubSeq(body, o[2] + 1, Len(body))
                        IN  RefFirstOfSeq(ps, N, f, beta) \cup
                            (IF RefNullablePrefix(ps, beta, Len(beta) + 1)
                             THEN g[ps[o[1]].head] ELSE {}) :
                        o \in {o \in Occurrences(ps) :
                                 ps[o[1]].body[o[2]] = B}}]
    IN  IF g2 = g THEN g ELSE RefFollowFrom(ps, N, f, g2)

\* FOLLOW: the least sets with EOF in FOLLOW(start) closed under the rules
RefFollow(ps, N) ==
    RefFollowFrom(ps, N, RefFirstFrom(ps, N, [A \in N |-> {}]),
                  [A \in N |-> IF A = start_symbol THEN {END_SYMBOL} ELSE {}])

\* compute_first_sets has returned / compute_follow_sets has returned
FirstComputed  == phase \in {"follow", "done", "select", "table"}
FollowComputed == phase \in {"done", "select", "table"}

(***************************************************************************)
(* C8  compute_first_sets yields the reference FIRST sets: a terminal is   *)
(* in FIRST(A) iff some string derived from A begins with it, and epsilon  *)
(* is in FIRST(A) iff A is nullable.                                       *)
(***************************************************************************)
C8_FirstIsReference ==
    FirstComputed => first = RefFirst(prods, nonterminals)

(***************************************************************************)
(* C9  compute_follow_sets yields the least sets that satisfy the FOLLOW   *)
(* rules: FOLLOW(A) flows into FOLLOW(B) for A -> alpha B beta only when   *)
(* beta is empty or every symbol of beta derives epsilon.                  *)
(***************************************************************************)
C9_FollowIsReference ==
    FollowComputed => follow = RefFollow(prods, nonterminals)

(***************************************************************************)
(* C10  FIRST closure: for every production A -> alpha,                    *)
(* first_of_sequence(alpha) over the computed FIRST sets is a subset of    *)
(* the computed FIRST(A).                                                  *)
(***************************************************************************)
C10_FirstClosure ==
    FirstComputed =>
        \A k \in 1..Len(prods) :
            first_of_sequence(prods[k].body, first, terminals)
                \subseteq first[prods[k].head]

\* a body that begins with a nullable nonterminal other than its head,
\* followed by a terminal, under computed FIRST sets
C10_Witness ==
    /\ FirstComputed
    /\ \E k \in 1..Len(prods) :
          LET body == prods[k].body
          IN  /\ Len(body) >= 2
              /\ body[1] \in nonterminals \ {prods[k].head}
              /\ EPSILON \in first[body[1]]
              /\ body[2] \in terminals
              /\ body[2] \in first_of_sequence(body, first, terminals)

\* compute_select_sets has returned / from_grammar has returned or raised
SelectComputed == phase \in {"select", "table"}
TableBuilt     == phase = "table"

\* SELECT of a production of the grammar
SelectOf(p) == dict_get(select, p)

(***************************************************************************)
(* C11  SELECT identity: for every production p = A -> alpha,              *)
(* SELECT(p) = (FIRST(alpha) \ {epsilon}) with FOLLOW(A) added iff epsilon *)
(* is in FIRST(alpha), FIRST(alpha) being first_of_sequence over the       *)
(* computed FIRST sets and FOLLOW the computed FOLLOW sets.                *)
(***************************************************************************)
C11_SelectIdentity ==
    SelectComputed =>
        /\ dict_keys(select) = SeqRange(prods)
        /\ \A k \in 1..Len(prods) :
              LET first_alpha == first_of_sequence(prods[k].body, first, terminals)
              IN  /\ EPSILON \in first_alpha =>
                        SelectOf(prods[k]) =
                            (first_alpha \ {EPSILON}) \cup follow[prods[k].head]
                  /\ EPSILON \notin first_alpha =>
                        SelectOf(prods[k]) = first_alpha

\* a production whose body is nullable and begins with a terminal of its
\* own, under a FOLLOW set that brings a further terminal
C11_Witness ==
    /\ SelectComputed
    /\ \E k \in 1..Len(prods) :
          LET first_alpha == first_of_sequence(prods[k].body, first, terminals)
          IN  /\ EPSILON \in first_alpha
              /\ first_alpha \ {EPSILON} # {}
              /\ ~(follow[prods[k].head] \subseteq first_alpha)

(***************************************************************************)
(* C12  No FOLLOW set and no SELECT set ever holds epsilon or a            *)
(* nonterminal: their elements are terminals of the grammar (EOF is one).  *)
(***************************************************************************)
C12_OnlyTerminals ==
    /\ phase \in {"follow", "done", "select", "table"} =>
          \A nt \in nonterminals :
              /\ follow[nt] \subseteq terminals
              /\ follow[nt] \cap (nonterminals \cup {EPSILON}) = {}
    /\ SelectComputed =>
          \A k \in 1..Len(select) :
              /\ select[k].value \subseteq terminals
              /\ select[k].value \cap (nonterminals \cup {EPSILON}) = {}

\* epsilon is in FIRST of a body and of what follows a nonterminal in a body
C12_Witness ==
    /\ SelectComputed
    /\ \E k \in 1..Len(prods) :
          EPSILON \in first_of_sequence(prods[k].body, first, terminals)
    /\ \E o \in Occurrences(prods) :
          LET body == prods[o[1]].body
          IN  /\ body[o[2]] \in nonterminals
              /\ o[2] < Len(body)
              /\ EPSILON \in first_of_sequence(
                     SubSeq(body, o[2] + 1, Len(body)), first, terminals)

(***************************************************************************)
(* C13  FOLLOW start: EOF is in FOLLOW(start symbol) when                  *)
(* compute_follow_sets returns.                                            *)
(***************************************************************************)
C13_FollowStart ==
    FollowComputed => END_SYMBOL \in follow[start_symbol]

\* the start symbol is in no body: EOF reaches its FOLLOW set from nowhere
\* but the initialisation
C13_Witness ==
    /\ FollowComputed
    /\ \A o \in Occurrences(prods) : prods[o[1]].body[o[2]] # start_symbol
    /\ nonterminals = {"S", "A"}
    /\ follow["A"] # {}

(***************************************************************************)
(* C14  Table-cell correctness: every filled cell table[A][t] = p has      *)
(* head(p) = A and t in SELECT(p), and t is not epsilon.                   *)
(***************************************************************************)
C14_CellCorrect ==
    TableBuilt =>
        \A c \in DOMAIN table :
            /\ table[c] \in dict_keys(select)
            /\ table[c].head = c[1]
            /\ c[2] \in SelectOf(table[c])
            /\ c[2] # EPSILON

\* a table of two rows, with a cell two productions wanted
C14_Witness ==
    /\ TableBuilt /\ allow_conflict
    /\ conflicts # <<>>
    /\ {c[1] : c \in DOMAIN table} = {"S", "A"}

\* the productions of head A with t in their SELECT set, by first place in
\* the grammar
Wanting(A, t) ==
    {k \in 1..Len(prods) : prods[k].head = A /\ t \in SelectOf(prods[k])}

\* the messages that name both p1 and p2
Naming(p1, p2) ==
    {i \in 1..Len(conflicts) : {conflicts[i].had, conflicts[i].saw} = {p1, p2}}

(***************************************************************************)
(* C15  Conflict detection (as claimed): in permissive mode every pair of  *)
(* distinct productions with the same head whose SELECT sets intersect is  *)
(* named by at least one message of the conflicts list, also when three    *)
(* or more productions of one head share a terminal.                       *)
(***************************************************************************)
C15_EveryPairNamed ==
    (TableBuilt /\ allow_conflict) =>
        \A p1, p2 \in SeqRange(prods) :
            (/\ p1 # p2
             /\ p1.head = p2.head
             /\ SelectOf(p1) \cap SelectOf(p2) # {}) => Naming(p1, p2) # {}

(***************************************************************************)
(* C15 (amended)  In permissive mode the conflicts list holds exactly one  *)
(* message for every cell <<A, t>> and every production of head A with t   *)
(* in its SELECT set other than the one the cell holds; the message names  *)
(* the cell, the production the cell holds and that other production.  A   *)
(* pair of productions neither of which holds the cell is named by the     *)
(* message of no cell.                                                     *)
(***************************************************************************)
C15_HolderPairsNamed ==
    (TableBuilt /\ allow_conflict) =>
        LET expected ==
                UNION {{Message(c[1], c[2], table[c], p) :
                           p \in {q \in SeqRange(prods) :
                                     /\ q.head = c[1]
                                     /\ c[2] \in SelectOf(q)
                                     /\ q # table[c]}} :
                       c \in DOMAIN table}
        IN  /\ SeqRange(conflicts) = expected
            /\ Len(conflicts) = Cardinality(expected)

\* three distinct productions of one head share a terminal
C15_Witness ==
    /\ TableBuilt /\ allow_conflict
    /\ \E A \in nonterminals : \E t \in terminals :
          Cardinality({prods[k] : k \in Wanting(A, t)}) >= 3

(***************************************************************************)
(* C16  First write wins: a permissive build never stops early; the cell   *)
(* table[A][t] is filled iff t is in SELECT(p) for some production p of    *)
(* head A, and then holds the first such production in insertion order.    *)
(***************************************************************************)
C16_FirstWriterWins ==
    (TableBuilt /\ allow_conflict) =>
        /\ raised = <<>>
        /\ DOMAIN table \subseteq nonterminals \X terminals
        /\ \A A \in nonterminals : \A t \in terminals :
              /\ <<A, t>> \in DOMAIN table <=> Wanting(A, t) # {}
              /\ Wanting(A, t) # {} =>
                    table[<<A, t>>] =
                        prods[CHOOSE k \in Wanting(A, t) :
                                  \A j \in Wanting(A, t) : k <= j]

\* a cell wanted by a later production that differs from the first one
C16_Witness ==
    /\ TableBuilt /\ allow_conflict
    /\ \E A \in nonterminals : \E t \in terminals :
       \E j, k \in Wanting(A, t) : j < k /\ prods[j] # prods[k]

\* two distinct productions of one head have intersecting SELECT sets
Conflicting ==
    \E p1, p2 \in SeqRange(prods) :
        /\ p1 # p2
        /\ p1.head = p2.head
        /\ SelectOf(p1) \cap SelectOf(p2) # {}

(***************************************************************************)
(* C17  A strict build (allow_conflict = False) raises iff two distinct    *)
(* productions of one head have intersecting SELECT sets; a permissive     *)
(* build never raises, and its conflicts list is empty iff the SELECT sets *)
(* of the productions of each head are pairwise disjoint.                  *)
(***************************************************************************)
C17_StrictFailsIffConflict ==
    TableBuilt =>
        /\ ~allow_conflict => (raised # <<>> <=> Conflicting)
        /\ ~allow_conflict => conflicts = <<>>
        /\ allow_conflict => raised = <<>>
        /\ allow_conflict => (conflicts = <<>> <=> ~Conflicting)

\* a strict build that raised, over a grammar that has a production twice
C17_Witness ==
    /\ TableBuilt /\ ~allow_conflict
    /\ raised # <<>>
    /\ \E j, k \in 1..Len(prods) : j # k /\ prods[j] = prods[k]

(***************************************************************************)
(* service/grammer.py: build_grammar, the productions of the built-in      *)
(* grammar in the order of its G.add calls.                                *)
(***************************************************************************)
build_grammar ==
    <<
        add("P", <<"ExtList", END_SYMBOL>>),
        add("ExtList", <<"ExtDef", "ExtList">>),
        add("ExtList", <<>>),
        add("ExtDef", <<"Preprocess">>),
        add("ExtDef", <<"TypeSpec", "ExtAfterTypeSpec">>),
        add("ExtAfterTypeSpec", <<"PtrOpt", "ID", "ExtAfterId">>),
        add("ExtAfterTypeSpec", <<";">>),
        add("Preprocess", <<"#", "include", "<", "Header", ">">>),
        add("Header", <<"ID", "HeaderRest">>),
        add("HeaderRest", <<".", "ID">>),
        add("HeaderRest", <<>>),
        add("TypeSpec", <<"BasicType">>),
        add("TypeSpec", <<"UnionSpec">>),
        add("TypeSpec", <<"StructSpec">>),
        add("TypeSpec", <<"TYPE_NAME">>),
        add("BasicType", <<"int">>),
        add("BasicType", <<"char">>),
        add("BasicType", <<"float">>),
        add("BasicType", <<"double">>),
        add("BasicType", <<"void">>),
        add("UnionSpec", <<"union", "ID", "UnionBodyOpt">>),
        add("UnionBodyOpt", <<"{", "DeclListOpt", "}">>),
        add("UnionBodyOpt", <<>>),
        add("StructSpec", <<"struct", "ID", "StructBodyOpt">>),
        add("StructBodyOpt", <<"{", "DeclListOpt", "}">>),
        add("StructBodyOpt", <<>>),
        add("DeclListOpt", <<"DeclList">>),
        add("DeclListOpt", <<>>),
        add("DeclList", <<"Decl", "DeclList">>),
        add("DeclList", <<>>),
        add("ExtAfterId", <<"(", "ParamListOpt", ")", "CompoundStmt">>),
        add("ExtAfterId", <<"VarDeclRest", ";">>),
        add("VarDeclRest", <<"ArraySuffixOpt", "InitOpt", "VarDeclMore">>),
        add("VarDeclMore", <<",", "InitDecl", "VarDeclMore">>),
        add("VarDeclMore", <<>>),
        add("Decl", <<"TypeSpec", "InitDeclList", ";">>),
        add("InitDeclList", <<"InitDecl", "InitDeclListTail">>),
        add("InitDeclListTail", <<",", "InitDecl", "InitDeclListTail">>),
        add("InitDeclListTail", <<>>),
        add("PtrOpt", <<"*", "PtrOpt">>),
        add("PtrOpt", <<>>),
        add("InitDecl", <<"PtrOpt", "ID", "ArraySuffixOpt", "InitOpt">>),
        add("ArraySuffixOpt", <<"[", "INT_CONST", "]", "ArraySuffixOpt">>),
        add("ArraySuffixOpt", <<>>),
        add("InitOpt", <<"=", "Initializer">>),
        add("InitOpt", <<>>),
        add("Initializer", <<"Expr">>),
        add("Initializer", <<"{", "InitListOpt", "}">>),
        add("InitListOpt", <<"InitList">>),
        add("InitListOpt", <<>>),
        add("InitList", <<"Initializer", "InitListTail">>),
        add("InitListTail", <<",", "Initializer", "InitListTail">>),
        add("InitListTail", <<>>),
        add("FuncDef", <<"TypeSpec", "ID", "(", "ParamListOpt", ")", "CompoundStmt">>),
        add("ParamListOpt", <<"ParamList">>),
        add("ParamListOpt", <<>>),
        add("ParamList", <<"Param", "ParamListTail">>),
        add("ParamListTail", <<",", "Param", "ParamListTail">>),
        add("ParamListTail", <<>>),
        add("Param", <<"TypeSpec", "PtrOpt", "ID", "ArraySuffixOpt">>),
        add("Stmt", <<"ExprStmt">>),
        add("Stmt", <<"CompoundStmt">>),
        add("Stmt", <<"IfStmt">>),
        add("Stmt", <<"WhileStmt">>),
        add("Stmt", <<"ForStmt">>),
        add("Stmt", <<"ReturnStmt">>),
        add("Stmt", <<"BreakStmt">>),
        add("Stmt", <<"ContinueStmt">>),
        add("Stmt", <<"Decl">>),
        add("CompoundStmt", <<"{", "StmtListOpt", "}">>),
        add("StmtListOpt", <<"StmtList">>),
        add("StmtListOpt", <<>>),
        add("StmtList", <<"Stmt", "StmtList">>),
        add("StmtList", <<>>),
        add("ExprStmt", <<"Expr", ";">>),
        add("ExprStmt", <<";">>),
        add("IfStmt", <<"if", "(", "Expr", ")", "Stmt", "ElseOpt">>),
        add("ElseOpt", <<"else", "Stmt">>),
        add("ElseOpt", <<>>),
        add("WhileStmt", <<"while", "(", "Expr", ")", "Stmt">>),
        add("ForStmt", <<"for", "(", "ForInitOpt", ";", "ExprOpt", ";", "ExprOpt", ")", "Stmt">>),
        add("ForInitOpt", <<"DeclForInit">>),
        add("ForInitOpt", <<"Expr">>),
        add("ForInitOpt", <<>>),
        add("DeclForInit", <<"TypeSpec", "InitDeclList">>),
        add("ExprOpt", <<"Expr">>),
        add("ExprOpt", <<>>),
        add("ReturnStmt", <<"return", "ExprOpt", ";">>),
        add("BreakStmt", <<"break", ";">>),
        add("ContinueStmt", <<"continue", ";">>),
        add("Expr", <<"AssignExpr">>),
        add("AssignExpr", <<"OrExpr", "AssignTail">>),
        add("AssignTail", <<"=", "AssignExpr">>),
        add("AssignTail", <<>>),
        add("OrExpr", <<"AndExpr", "OrTail">>),
        add("OrTail", <<"||", "AndExpr", "OrTail">>),
        add("OrTail", <<>>),
        add("AndExpr", <<"EqExpr", "AndTail">>),
        add("AndTail", <<"&&", "EqExpr", "AndTail">>),
        add("AndTail", <<>>),
        add("EqExpr", <<"RelExpr", "EqTail">>),
        add("EqTail", <<"==", "RelExpr", "EqTail">>),
        add("EqTail", <<"!=", "RelExpr", "EqTail">>),
        add("EqTail", <<>>),
        add("RelExpr", <<"AddExpr", "RelTail">>),
        add("RelTail", <<"<", "AddExpr", "RelTail">>),
        add("RelTail", <<">", "AddExpr", "RelTail">>),
        add("RelTail", <<"<=", "AddExpr", "RelTail">>),
        add("RelTail", <<">=", "AddExpr", "RelTail">>),
        add("RelTail", <<>>),
        add("AddExpr", <<"MulExpr", "AddTail">>),
        add("AddTail", <<"+", "MulExpr", "AddTail">>),
        add("AddTail", <<"-", "MulExpr", "AddTail">>),
        add("AddTail", <<>>),
        add("MulExpr", <<"UnaryExpr", "MulTail">>),
        add("MulTail", <<"*", "UnaryExpr", "MulTail">>),
        add("MulTail", <<"/", "UnaryExpr", "MulTail">>),
        add("MulTail", <<"%", "UnaryExpr", "MulTail">>),
        add("MulTail", <<>>),
        add("UnaryExpr", <<"+", "UnaryExpr">>),
        add("UnaryExpr", <<"-", "UnaryExpr">>),
        add("UnaryExpr", <<"!", "UnaryExpr">>),
        add("UnaryExpr", <<"PostfixExpr">>),
        add("PostfixExpr", <<"Primary", "PostfixTail">>),
        add("PostfixTail", <<"(", "ArgListOpt", ")", "PostfixTail">>),
        add("PostfixTail", <<"[", "Expr", "]", "PostfixTail">>),
        add("PostfixTail", <<".", "ID", "PostfixTail">>),
        add("PostfixTail", <<"++", "PostfixTail">>),
        add("PostfixTail", <<"--", "PostfixTail">>),
        add("PostfixTail", <<>>),
        add("Primary", <<"ID">>),
        add("Primary", <<"printf">>),
        add("Primary", <<"CONSTANT">>),
        add("Primary", <<"(", "Expr", ")">>),
        add("ArgListOpt", <<"ArgList">>),
        add("ArgListOpt", <<>>),
        add("ArgList", <<"Expr", "ArgListTail">>),
        add("ArgListTail", <<",", "Expr", "ArgListTail">>),
        add("ArgListTail", <<>>),
        add("CONSTANT", <<"INT_CONST">>),
        add("CONSTANT", <<"FLOAT_CONST">>),
        add("CONSTANT", <<"CHAR_CONST">>),
        add("CONSTANT", <<"STRING_CONST">>)
    >>

\* the heads of the productions ps: Grammar.nonterminals after the adds
heads(ps) == {ps[k].head : k \in 1..Len(ps)}

(***************************************************************************)
(* The driver (main.py) as a state machine: build_grammar, the three       *)
(* analyses and the table, each by the actions above, then the             *)
(* table-driven parse of a source text and the AST of the tree.            *)
(***************************************************************************)
\* the values of args.source: a path that names a file, a path that names
\* none, and no argument at all
Paths == {"source.c", "missing.c"}
Exists(path) == path = "source.c"

InitG ==
    /\ prods = <<>> /\ nonterminals = {} /\ terminals = {}
    /\ first = <<>> /\ follow = <<>>
    /\ changed = FALSE /\ phase = "start"
    /\ start_symbol = ""
    /\ select = <<>> /\ table = <<>> /\ conflicts = <<>>
    /\ allow_conflict = TRUE /\ raised = <<>>
    /\ source = <<>> /\ tokens = <<>> /\ cursor = 0
    /\ stack = <<>> /\ tree = <<>> /\ type_names = {}
    /\ matched = <<>> /\ outcome = "none" /\ ast = <<>>
    /\ text = <<>> /\ pos = 0 /\ line = 1 /\ col = 1
    /\ tok = NoToken /\ start = 0
    /\ mcall = IdleMatch
    /\ cands = <<>> /\ winner = <<>>
    /\ args_source \in Paths \cup {None}
    /\ exit_status = <<>>
    /\ IdleRD

\* grammar = build_grammar(): Grammar(start_symbol="P"), the adds, finalize
BuildGrammar ==
    /\ exit_status = <<>>
    /\ args_source # None /\ Exists(args_source)
    /\ phase = "start"
    /\ start_symbol' = "P"
    /\ prods' = build_grammar
    /\ nonterminals' = heads(build_grammar)
    /\ terminals' = finalize(build_grammar, heads(build_grammar))
    /\ phase' = "finalized"
    /\ UNCHANGED <<first, follow, changed, lexVars, mcall, priVars, tblVars,
                   parseVars, mainVars, rdVars>>

(***************************************************************************)
(* Lexer.tokenize: the tokens of a text up to EOF, ERROR tokens included.  *)
(***************************************************************************)
RECURSIVE tokenize_loop(_, _, _)
tokenize_loop(t, st, out) ==
    LET r == next_token(t, st)
    IN  IF r.tok.type = "EOF" THEN out
        ELSE CHOOSE res \in {tokenize_loop(t, r.st, more) :
                               more \in {Append(out, r.tok)}} : TRUE

tokenize(t) == tokenize_loop(t, [pos |-> 0, line |-> 1, col |-> 1], <<>>)

\* a lexeme as Python's str, the form grammar symbols have
RECURSIVE Str(_)
Str(s) == IF s = <<>> THEN "" ELSE Head(s) \o Str(Tail(s))

(***************************************************************************)
(* The table-driven predictive parser main.py imports from service.parser  *)
(* (Parser(grammar, table), parse_source, ParseTreeNode).  That class is   *)
(* not among the sources, where service/parser.py holds the                *)
(* recursive-descent variant; the definitions of this section follow the   *)
(* parser's description in spec.md, section 4.6 and 4.7.                   *)
(***************************************************************************)
TagHeads == {"StructSpec", "UnionSpec"}

\* a stack entry (grammar symbol, parent-node reference, role tag); the
\* parent is the index of a node of `tree`, 0 for none
Entry(sym, parent, role) == [symbol |-> sym, parent |-> parent, role |-> role]

\* a parse tree node; only terminal leaves carry a lexeme
Node(sym, lexeme, parent) ==
    [symbol |-> sym, lexeme |-> lexeme, parent |-> parent]

\* token_to_symbol, for a token that is not an ERROR token
token_to_symbol(tk, names) ==
    IF tk.type = "EOF" THEN END_SYMBOL
    ELSE IF tk.type = "ID"
    THEN IF Str(tk.lexeme) \in names THEN "TYPE_NAME" ELSE "ID"
    ELSE IF tk.type \in {"NUM10", "NUM8", "NUM16"} THEN "INT_CONST"
    ELSE IF tk.type = "FLOAT" THEN "FLOAT_CONST"
    ELSE IF tk.type = "CS_CHAR" THEN "CHAR_CONST"
    ELSE IF tk.type = "CS_STR" THEN "STRING_CONST"
    ELSE Str(tk.lexeme)

\* the token under the cursor; past the last token of the source it is EOF
token_at(toks, k) ==
    IF k < Len(toks) THEN toks[k + 1] ELSE Token("EOF", <<>>, 0, 0)

\* a parser that tags no body symbol, so that no match adds a type name
role_of_none(p, i) == ""

\* the role of the body symbol at position i of production p
role_of(p, i) ==
    IF p.head \in TagHeads /\ p.body[i] = "ID" THEN "tag_name" ELSE ""

\* the entries pushed for the body of p under node n: the body in reverse
\* order, so that its first symbol is on top
pushed(p, n) ==
    [i \in 1..Len(p.body) |->
        Entry(p.body[Len(p.body) + 1 - i], n,
              role_of(p, Len(p.body) + 1 - i))]

\* the children of node n, in the order they were attached
children(tr, n) ==
    SelectSeq([k \in 1..Len(tr) |-> k], LAMBDA k : tr[k].parent = n)

(***************************************************************************)
(* service/ast_builder.py.  A parse tree node is named by its index in     *)
(* the tree, 0 standing for None; an Optional[ASTNode] is a sequence of    *)
(* at most one node and a List[ASTNode] a sequence of nodes.  A call of    *)
(* _ast_X(node, ...) from another function is written _ast("X", ...).       *)
(***************************************************************************)

ASTNode(kind, value, kids) ==
    [kind |-> kind, value |-> value, children |-> kids]

\* _kids: the children that are not epsilon leaves
_kids(tr, n) ==
    SelectSeq(children(tr, n), LAMBDA c : tr[c].symbol # EPSILON)

_tok_text(tr, n) ==
    IF tr[n].lexeme # "" THEN tr[n].lexeme ELSE tr[n].symbol

\* ks[i - 1] if len(ks) >= i else None
KidOr0(ks, i) == IF Len(ks) >= i THEN ks[i] ELSE 0

\* "*" * count
RECURSIVE Stars(_)
Stars(count) == IF count <= 0 THEN "" ELSE "*" \o Stars(count - 1)

Dims(ds) == [i \in 1..Len(ds) |-> ASTNode("Dim", ds[i], <<>>)]

RECURSIVE _ast(_, _, _, _), ptr_loop(_, _, _, _), binary_loop(_, _, _, _, _),
          binary_loop_right(_, _, _, _, _),
          _fold_tail(_, _, _, _, _, _), _ast_PostfixTail(_, _, _)

\* the while loop of _ast_PtrOpt: the number of stars
ptr_loop(tr, cur, node, count) ==
    LET cur_ks == _kids(tr, cur)
    IN  IF cur_ks = <<>> \/ tr[cur_ks[1]].symbol # "*" THEN count
        ELSE LET nxt == IF Len(cur_ks) > 1 THEN cur_ks[2] ELSE cur
             IN  IF nxt = node THEN count + 1
                 ELSE ptr_loop(tr, nxt, node, count + 1)

_ast_PtrOpt(tr, n) ==
    IF _kids(tr, n) = <<>> THEN <<>>
    ELSE <<ASTNode("Ptr", Stars(ptr_loop(tr, n, n, 0)), <<>>)>>

_ast_ArraySuffixOpt(tr, n) ==
    LET ks == _kids(tr, n)
    IN  IF ks = <<>> THEN <<>>
        ELSE LET dim  == IF Len(ks) >= 2 THEN _tok_text(tr, ks[2]) ELSE "?"
                 rest == KidOr0(ks, 4)
             IN  <<dim>> \o (IF rest # 0 THEN _ast("ArraySuffixOpt", tr, rest, None)
                             ELSE <<>>)

_ast_InitListTail(tr, n) ==
    LET ks == _kids(tr, n)
    IN  IF ks = <<>> THEN <<>>
        ELSE LET init == IF Len(ks) >= 2 THEN _ast("Initializer", tr, ks[2], None)
                         ELSE ASTNode("Init", "?", <<>>)
                 rest == KidOr0(ks, 3)
             IN  <<init>> \o (IF rest # 0 THEN _ast("InitListTail", tr, rest, None)
                              ELSE <<>>)

_ast_InitList(tr, n) ==
    LET ks == _kids(tr, n)
    IN  IF ks = <<>> THEN <<>>
        ELSE LET tail == KidOr0(ks, 2)
             IN  <<_ast("Initializer", tr, ks[1], None)>>
                     \o (IF tail # 0 THEN _ast("InitListTail", tr, tail, None)
                         ELSE <<>>)

_ast_InitListOpt(tr, n) ==
    LET ks == _kids(tr, n)
    IN  IF ks = <<>> THEN <<>> ELSE _ast("InitList", tr, ks[1], None)

_ast_Initializer(tr, n) ==
    LET ks == _kids(tr, n)
    IN  IF ks = <<>> THEN ASTNode("Init", "?", <<>>)
        ELSE IF tr[ks[1]].symbol = "{"
        THEN LET init_list_opt == KidOr0(ks, 2)
             IN  ASTNode("InitList", None,
                         IF init_list_opt # 0
                         THEN _ast("InitListOpt", tr, init_list_opt, None) ELSE <<>>)
        ELSE _ast("Expr", tr, ks[1], None)

_ast_InitOpt(tr, n) ==
    LET ks == _kids(tr, n)
    IN  IF ks = <<>> THEN <<>>
        ELSE IF Len(ks) >= 2 /\ tr[ks[1]].symbol = "="
        THEN <<_ast("Initializer", tr, ks[2], None)>>
        ELSE <<>>

_ast_InitDecl(tr, n, t) ==
    LET ks == _kids(tr, n)
    IN  IF Len(ks) < 2 THEN <<>>
        ELSE LET ptr  == _ast("PtrOpt", tr, ks[1], None)
                 name == _tok_text(tr, ks[2])
                 arr  == IF Len(ks) >= 3 THEN _ast("ArraySuffixOpt", tr, ks[3], None)
                         ELSE <<>>
                 init == IF Len(ks) >= 4 THEN _ast("InitOpt", tr, ks[4], None)
                         ELSE <<>>
             IN  <<ASTNode("VarDecl", name,
                     <<ASTNode("Type", None, <<t>>)>> \o ptr
                     \o (IF arr # <<>>
                         THEN <<ASTNode("ArrayDims", None, Dims(arr))>>
                         ELSE <<>>)
                     \o (IF init # <<>>
                         THEN <<ASTNode("Init", None, init)>>
                         ELSE <<>>))>>

_ast_InitDeclListTail(tr, n, t) ==
    LET ks == _kids(tr, n)
    IN  IF ks = <<>> THEN <<>>
        ELSE LET init_decl == KidOr0(ks, 2)
                 rest      == KidOr0(ks, 3)
             IN  (IF init_decl # 0 THEN _ast("InitDecl", tr, init_decl, t)
                  ELSE <<>>)
                 \o (IF rest # 0 THEN _ast("InitDeclListTail", tr, rest, t)
                     ELSE <<>>)

_ast_InitDeclList(tr, n, t) ==
    LET ks == _kids(tr, n)
    IN  IF ks = <<>> THEN <<>>
        ELSE LET tail == KidOr0(ks, 2)
             IN  _ast("InitDecl", tr, ks[1], t)
                 \o (IF tail # 0 THEN _ast("InitDeclListTail", tr, tail, t)
                     ELSE <<>>)

_ast_DeclListOpt(tr, n) ==
    LET ks == _kids(tr, n)
    IN  IF ks = <<>> THEN <<>> ELSE _ast("DeclList", tr, ks[1], None)

\* what _ast_StructSpec and _ast_UnionSpec add: the Fields of a specifier
\* that has a body (has_body), else None
SpecFields(tr, body_opt) ==
    IF body_opt = 0 THEN <<>>
    ELSE LET body_ks == _kids(tr, body_opt)
         IN  IF body_ks # <<>> /\ tr[body_ks[1]].symbol = "{"
             THEN LET decl_list_opt == KidOr0(body_ks, 2)
                  IN  <<ASTNode("Fields", None,
                                IF decl_list_opt # 0
                                THEN _ast("DeclListOpt", tr, decl_list_opt, None)
                                ELSE <<>>)>>
             ELSE <<>>

_ast_StructSpec(tr, n, as_type) ==
    LET ks   == _kids(tr, n)
        name == IF Len(ks) >= 2 THEN _tok_text(tr, ks[2]) ELSE "?"
    IN  ASTNode(IF as_type THEN "StructType" ELSE "StructDef", name,
                SpecFields(tr, KidOr0(ks, 3)))

_ast_UnionSpec(tr, n, as_type) ==
    LET ks   == _kids(tr, n)
        name == IF Len(ks) >= 2 THEN _tok_text(tr, ks[2]) ELSE "?"
    IN  ASTNode(IF as_type THEN "UnionType" ELSE "UnionDef", name,
                SpecFields(tr, KidOr0(ks, 3)))

_ast_TypeSpec(tr, n) ==
    LET ks == _kids(tr, n)
    IN  IF ks = <<>> THEN ASTNode("Type", "?", <<>>)
        ELSE LET head == ks[1]
             IN  IF tr[head].symbol = "BasicType"
                 THEN LET bt == _kids(tr, head)
                      IN  ASTNode("Type",
                                  IF bt # <<>> THEN _tok_text(tr, bt[1])
                                  ELSE "?", <<>>)
                 ELSE IF tr[head].symbol = "StructSpec"
                 THEN _ast("StructSpec", tr, head, TRUE)
                 ELSE IF tr[head].symbol = "UnionSpec"
                 THEN _ast("UnionSpec", tr, head, TRUE)
                 ELSE IF tr[head].symbol = "TYPE_NAME"
                 THEN ASTNode("Type", _tok_text(tr, head), <<>>)
                 ELSE ASTNode("Type", tr[head].symbol, <<>>)

_ast_Decl(tr, n) ==
    LET ks == _kids(tr, n)
    IN  IF Len(ks) < 2 THEN <<ASTNode("DeclUnknown", None, <<>>)>>
        ELSE _ast("InitDeclList", tr, ks[2], _ast("TypeSpec", tr, ks[1], None))

_ast_DeclList(tr, n) ==
    LET ks == _kids(tr, n)
    IN  IF ks = <<>> THEN <<>>
        ELSE LET rest == KidOr0(ks, 2)
             IN  _ast("Decl", tr, ks[1], None)
                 \o (IF rest # 0 THEN _ast("DeclList", tr, rest, None) ELSE <<>>)

_ast_Param(tr, n) ==
    LET ks == _kids(tr, n)
    IN  IF Len(ks) < 3 THEN <<>>
        ELSE LET t    == _ast("TypeSpec", tr, ks[1], None)
                 ptr  == _ast("PtrOpt", tr, ks[2], None)
                 name == _tok_text(tr, ks[3])
                 dims == IF Len(ks) >= 4 THEN _ast("ArraySuffixOpt", tr, ks[4], None)
                         ELSE <<>>
             IN  <<ASTNode("Param", name,
                     <<ASTNode("Type", None, <<t>>)>> \o ptr
                     \o (IF dims # <<>>
                         THEN <<ASTNode("ArrayDims", None, Dims(dims))>>
                         ELSE <<>>))>>

_ast_ParamListTail(tr, n) ==
    LET ks == _kids(tr, n)
    IN  IF ks = <<>> THEN <<>>
        ELSE LET rest == KidOr0(ks, 3)
             IN  (IF Len(ks) >= 2 THEN _ast("Param", tr, ks[2], None) ELSE <<>>)
                 \o (IF rest # 0 THEN _ast("ParamListTail", tr, rest, None)
                     ELSE <<>>)

_ast_ParamList(tr, n) ==
    LET ks == _kids(tr, n)
    IN  IF ks = <<>> THEN <<>>
        ELSE LET tail == KidOr0(ks, 2)
             IN  _ast("Param", tr, ks[1], None)
                 \o (IF tail # 0 THEN _ast("ParamListTail", tr, tail, None)
                     ELSE <<>>)

_ast_ParamListOpt(tr, n) ==
    LET ks == _kids(tr, n)
    IN  IF ks = <<>> THEN <<>> ELSE _ast("ParamList", tr, ks[1], None)

_ast_FuncAfterId(tr, n) ==
    LET ks == _kids(tr, n)
    IN  IF ks = <<>> THEN <<>>
        ELSE LET params == KidOr0(ks, 2)
                 body   == KidOr0(ks, 4)
             IN  (IF params # 0
                  THEN <<ASTNode("Params", None,
                                 _ast("ParamListOpt", tr, params, None))>>
                  ELSE <<>>)
                 \o (IF body # 0 THEN <<_ast("CompoundStmt", tr, body, None)>>
                     ELSE <<>>)

_ast_StmtListOpt(tr, n) ==
    LET ks == _kids(tr, n)
    IN  IF ks = <<>> THEN <<>> ELSE _ast("StmtList", tr, ks[1], None)

_ast_StmtList(tr, n) ==
    LET ks == _kids(tr, n)
    IN  IF ks = <<>> THEN <<>>
        ELSE LET rest == KidOr0(ks, 2)
             IN  _ast("Stmt", tr, ks[1], None)
                 \o (IF rest # 0 THEN _ast("StmtList", tr, rest, None) ELSE <<>>)

_ast_CompoundStmt(tr, n) ==
    LET stmt_list_opt == KidOr0(_kids(tr, n), 2)
    IN  ASTNode("Block", None,
                IF stmt_list_opt # 0 THEN _ast("StmtListOpt", tr, stmt_list_opt, None)
                ELSE <<>>)

_ast_ExprStmt(tr, n) ==
    LET ks == _kids(tr, n)
    IN  IF ks = <<>> THEN ASTNode("Empty", None, <<>>)
        ELSE IF Len(ks) = 1 /\ tr[ks[1]].symbol = ";"
        THEN ASTNode("Empty", None, <<>>)
        ELSE ASTNode("ExprStmt", None, <<_ast("Expr", tr, ks[1], None)>>)

_ast_ElseOpt_none(tr, n) == <<>>

_ast_ElseOpt(tr, n) ==
    LET ks == _kids(tr, n)
    IN  IF ks = <<>> THEN <<>>
        ELSE IF tr[ks[1]].symbol = "else"
        THEN IF Len(ks) >= 2 THEN _ast("Stmt", tr, ks[2], None) ELSE <<>>
        ELSE <<>>

\* ASTNode(kind).add(x) if x else None
Wrapped(kind, x) == IF x # <<>> THEN <<ASTNode(kind, None, x)>> ELSE <<>>

_ast_IfStmt(tr, n) ==
    LET ks   == _kids(tr, n)
        cond == IF Len(ks) >= 3 THEN _ast("Expr", tr, ks[3], None)
                ELSE ASTNode("Expr", "?", <<>>)
        then == IF Len(ks) >= 5 THEN _ast("Stmt", tr, ks[5], None) ELSE <<>>
        else_opt == KidOr0(ks, 6)
        els  == IF else_opt # 0 THEN _ast("ElseOpt", tr, else_opt, None) ELSE <<>>
    IN  ASTNode("If", None,
                <<ASTNode("Cond", None, <<cond>>)>>
                \o Wrapped("Then", then) \o Wrapped("Else", els))

_ast_WhileStmt(tr, n) ==
    LET ks   == _kids(tr, n)
        cond == IF Len(ks) >= 3 THEN _ast("Expr", tr, ks[3], None)
                ELSE ASTNode("Expr", "?", <<>>)
        body == IF Len(ks) >= 5 THEN _ast("Stmt", tr, ks[5], None) ELSE <<>>
    IN  ASTNode("While", None,
                <<ASTNode("Cond", None, <<cond>>)>> \o Wrapped("Body", body))

_ast_ExprOpt(tr, n) ==
    LET ks == _kids(tr, n)
    IN  IF ks = <<>> THEN <<>> ELSE <<_ast("Expr", tr, ks[1], None)>>

_ast_DeclForInit(tr, n) ==
    LET ks == _kids(tr, n)
        t  == IF ks # <<>> THEN _ast("TypeSpec", tr, ks[1], None)
              ELSE ASTNode("Type", "?", <<>>)
    IN  ASTNode("DeclForInit", None,
                IF Len(ks) >= 2 THEN _ast("InitDeclList", tr, ks[2], t)
                ELSE <<>>)

_ast_ForInitOpt(tr, n) ==
    LET ks == _kids(tr, n)
    IN  IF ks = <<>> THEN <<>>
        ELSE IF tr[ks[1]].symbol = "DeclForInit"
        THEN <<_ast("DeclForInit", tr, ks[1], None)>>
        ELSE IF tr[ks[1]].symbol = "Expr" THEN <<_ast("Expr", tr, ks[1], None)>>
        ELSE <<>>

_ast_ForStmt(tr, n) ==
    LET ks   == _kids(tr, n)
        init == IF Len(ks) >= 3 THEN _ast("ForInitOpt", tr, ks[3], None) ELSE <<>>
        cond == IF Len(ks) >= 5 THEN _ast("ExprOpt", tr, ks[5], None) ELSE <<>>
        post == IF Len(ks) >= 7 THEN _ast("ExprOpt", tr, ks[7], None) ELSE <<>>
        body == IF Len(ks) >= 9 THEN _ast("Stmt", tr, ks[9], None) ELSE <<>>
    IN  ASTNode("For", None,
                Wrapped("Init", init) \o Wrapped("Cond", cond)
                \o Wrapped("Post", post) \o Wrapped("Body", body))

_ast_ReturnStmt(tr, n) ==
    LET expr_opt == KidOr0(_kids(tr, n), 2)
    IN  ASTNode("Return", None,
                IF expr_opt # 0 THEN _ast("ExprOpt", tr, expr_opt, None) ELSE <<>>)

_ast_Stmt(tr, n) ==
    LET ks == _kids(tr, n)
    IN  IF ks = <<>> THEN <<>>
        ELSE LET head == ks[1]
                 sym  == tr[head].symbol
             IN  IF sym = "ExprStmt" THEN <<_ast("ExprStmt", tr, head, None)>>
                 ELSE IF sym = "CompoundStmt"
                 THEN <<_ast("CompoundStmt", tr, head, None)>>
                 ELSE IF sym = "IfStmt" THEN <<_ast("IfStmt", tr, head, None)>>
                 ELSE IF sym = "WhileStmt" THEN <<_ast("WhileStmt", tr, head, None)>>
                 ELSE IF sym = "ForStmt" THEN <<_ast("ForStmt", tr, head, None)>>
                 ELSE IF sym = "ReturnStmt"
                 THEN <<_ast("ReturnStmt", tr, head, None)>>
                 ELSE IF sym = "BreakStmt"
                 THEN <<ASTNode("Break", None, <<>>)>>
                 ELSE IF sym = "ContinueStmt"
                 THEN <<ASTNode("Continue", None, <<>>)>>
                 ELSE IF sym = "Decl"
                 THEN <<ASTNode("DeclStmt", None, _ast("Decl", tr, head, None))>>
                 ELSE <<ASTNode("Stmt", sym, <<>>)>>

_ast_Expr(tr, n) ==
    LET ks == _kids(tr, n)
    IN  IF ks = <<>> THEN ASTNode("Expr", "?", <<>>)
        ELSE _ast("AssignExpr", tr, ks[1], None)

_ast_CONSTANT(tr, n) ==
    LET ks == _kids(tr, n)
    IN  IF ks = <<>> THEN ASTNode("Literal", "?", <<>>)
        ELSE ASTNode("Literal", _tok_text(tr, ks[1]), <<>>)

_as_leaf(tr, n) == ASTNode(tr[n].symbol, _tok_text(tr, n), <<>>)

_ast_Primary(tr, n) ==
    LET ks == _kids(tr, n)
    IN  IF ks = <<>> THEN ASTNode("Expr", "?", <<>>)
        ELSE LET head == ks[1]
                 sym  == tr[head].symbol
             IN  IF sym \in {"ID", "TYPE_NAME"}
                 THEN ASTNode("Id", _tok_text(tr, head), <<>>)
                 ELSE IF sym = "printf" THEN ASTNode("Id", "printf", <<>>)
                 ELSE IF sym = "CONSTANT" THEN _ast("CONSTANT", tr, head, None)
                 ELSE IF sym = "(" /\ Len(ks) >= 2 THEN _ast("Expr", tr, ks[2], None)
                 ELSE _as_leaf(tr, head)

_ast_ArgListTail(tr, n) ==
    LET ks == _kids(tr, n)
    IN  IF ks = <<>> THEN <<>>
        ELSE LET expr == IF Len(ks) >= 2 THEN _ast("Expr", tr, ks[2], None)
                         ELSE ASTNode("Expr", "?", <<>>)
                 rest == KidOr0(ks, 3)
             IN  <<expr>> \o (IF rest # 0 THEN _ast("ArgListTail", tr, rest, None)
                              ELSE <<>>)

_ast_ArgList(tr, n) ==
    LET ks == _kids(tr, n)
    IN  IF ks = <<>> THEN <<>>
        ELSE LET tail == KidOr0(ks, 2)
             IN  <<_ast("Expr", tr, ks[1], None)>>
                 \o (IF tail # 0 THEN _ast("ArgListTail", tr, tail, None) ELSE <<>>)

_ast_ArgListOpt(tr, n) ==
    LET ks == _kids(tr, n)
    IN  IF ks = <<>> THEN <<>> ELSE _ast("ArgList", tr, ks[1], None)

\* the while loop of _ast_PostfixTail, from the tail node t (0 for None)
_ast_PostfixTail(tr, cur, t) ==
    LET ks == IF t = 0 THEN <<>> ELSE _kids(tr, t)
    IN  IF ks = <<>> THEN cur
        ELSE LET head == tr[ks[1]].symbol
             IN  IF head = "("
                 THEN LET args_opt == KidOr0(ks, 2)
                          args == IF args_opt # 0
                                  THEN _ast("ArgListOpt", tr, args_opt, None)
                                  ELSE <<>>
                      IN  _ast_PostfixTail(tr,
                              ASTNode("Call", None,
                                      <<cur, ASTNode("Args", None, args)>>),
                              KidOr0(ks, 4))
                 ELSE IF head = "["
                 THEN LET idx == IF Len(ks) >= 2 THEN _ast("Expr", tr, ks[2], None)
                                 ELSE ASTNode("Expr", "?", <<>>)
                      IN  _ast_PostfixTail(tr,
                              ASTNode("Index", None, <<cur, idx>>),
                              KidOr0(ks, 4))
                 ELSE IF head = "."
                 THEN LET member == IF Len(ks) >= 2 THEN _tok_text(tr, ks[2])
                                    ELSE "?"
                      IN  _ast_PostfixTail(tr,
                              ASTNode("Member", member, <<cur>>),
                              KidOr0(ks, 3))
                 ELSE IF head = "++"
                 THEN _ast_PostfixTail(tr, ASTNode("PostInc", None, <<cur>>),
                                       KidOr0(ks, 2))
                 ELSE IF head = "--"
                 THEN _ast_PostfixTail(tr, ASTNode("PostDec", None, <<cur>>),
                                       KidOr0(ks, 2))
                 ELSE cur

_ast_PostfixExpr(tr, n) ==
    LET ks == _kids(tr, n)
    IN  IF ks = <<>> THEN ASTNode("Expr", "?", <<>>)
        ELSE LET base == _ast("Primary", tr, ks[1], None)
                 tail == KidOr0(ks, 2)
             IN  IF tail # 0 THEN _ast_PostfixTail(tr, base, tail) ELSE base

_ast_UnaryExpr(tr, n) ==
    LET ks == _kids(tr, n)
    IN  IF ks = <<>> THEN ASTNode("Expr", "?", <<>>)
        ELSE IF tr[ks[1]].symbol \in {"+", "-", "!"} /\ Len(ks) >= 2
        THEN ASTNode("Unary", tr[ks[1]].symbol, <<_ast("UnaryExpr", tr, ks[2], None)>>)
        ELSE _ast("PostfixExpr", tr, ks[1], None)

\* the loop of _ast_EqExpr, _ast_RelExpr, _ast_AddExpr and _ast_MulExpr
\* over the tail t (0 for None): ops are the operators of the level and
\* level names the function applied to each right operand
\* the loop folding to the right: a op (b op c)
binary_loop_right(tr, cur, t, ops, level) ==
    LET tks == IF t = 0 THEN <<>> ELSE _kids(tr, t)
    IN  IF tks = <<>> THEN cur
        ELSE IF tr[tks[1]].symbol \notin ops THEN cur
        ELSE LET op  == tr[tks[1]].symbol
                 rhs == IF Len(tks) >= 2 THEN _ast(level, tr, tks[2], None)
                        ELSE ASTNode("Expr", "?", <<>>)
             IN  ASTNode("Binary", op,
                         <<cur, binary_loop_right(tr, rhs, KidOr0(tks, 3),
                                                  ops, level)>>)

binary_loop(tr, cur, t, ops, level) ==
    LET tks == IF t = 0 THEN <<>> ELSE _kids(tr, t)
    IN  IF tks = <<>> THEN cur
        ELSE IF tr[tks[1]].symbol \notin ops THEN cur
        ELSE LET op  == tr[tks[1]].symbol
                 rhs == IF Len(tks) >= 2 THEN _ast(level, tr, tks[2], None)
                        ELSE ASTNode("Expr", "?", <<>>)
             IN  binary_loop(tr, ASTNode("Binary", op, <<cur, rhs>>),
                             KidOr0(tks, 3), ops, level)

\* a MulExpr that builds its first operand and drops the tail
_ast_MulExpr_operand(tr, n) ==
    LET ks == _kids(tr, n)
    IN  IF ks # <<>> THEN _ast("UnaryExpr", tr, ks[1], None)
        ELSE ASTNode("Expr", "?", <<>>)

_ast_MulExpr(tr, n) ==
    LET ks   == _kids(tr, n)
        left == IF ks # <<>> THEN _ast("UnaryExpr", tr, ks[1], None)
                ELSE ASTNode("Expr", "?", <<>>)
        tail == KidOr0(ks, 2)
    IN  IF tail = 0 THEN left
        ELSE binary_loop(tr, left, tail, {"*", "/", "%"}, "UnaryExpr")

_ast_AddExpr(tr, n) ==
    LET ks   == _kids(tr, n)
        left == IF ks # <<>> THEN _ast("MulExpr", tr, ks[1], None)
                ELSE ASTNode("Expr", "?", <<>>)
        tail == KidOr0(ks, 2)
    IN  IF tail = 0 THEN left
        ELSE binary_loop(tr, left, tail, {"+", "-"}, "MulExpr")

_ast_RelExpr(tr, n) ==
    LET ks   == _kids(tr, n)
        left == IF ks # <<>> THEN _ast("AddExpr", tr, ks[1], None)
                ELSE ASTNode("Expr", "?", <<>>)
        tail == KidOr0(ks, 2)
    IN  IF tail = 0 THEN left
        ELSE binary_loop(tr, left, tail, {"<", ">", "<=", ">="}, "AddExpr")

_ast_EqExpr(tr, n) ==
    LET ks   == _kids(tr, n)
        left == IF ks # <<>> THEN _ast("RelExpr", tr, ks[1], None)
                ELSE ASTNode("Expr", "?", <<>>)
        tail == KidOr0(ks, 2)
    IN  IF tail = 0 THEN left
        ELSE binary_loop(tr, left, tail, {"==", "!="}, "RelExpr")

_fold_tail(tr, left, tail, op_sym, rhs_symbol, next_tail_symbol) ==
    LET tks == _kids(tr, tail)
    IN  IF tks = <<>> THEN left
        ELSE IF tr[tks[1]].symbol # op_sym THEN left
        ELSE LET rhs == IF Len(tks) >= 2 THEN _ast(rhs_symbol, tr, tks[2], None)
                        ELSE ASTNode("Expr", "?", <<>>)
                 cur == ASTNode("Binary", op_sym, <<left, rhs>>)
                 nxt == KidOr0(tks, 3)
             IN  IF nxt = 0 \/ tr[nxt].symbol # next_tail_symbol THEN cur
                 ELSE _fold_tail(tr, cur, nxt, op_sym, rhs_symbol,
                                 next_tail_symbol)

_ast_AndExpr(tr, n) ==
    LET ks   == _kids(tr, n)
        left == IF ks # <<>> THEN _ast("EqExpr", tr, ks[1], None)
                ELSE ASTNode("Expr", "?", <<>>)
        tail == KidOr0(ks, 2)
    IN  IF tail # 0 THEN _fold_tail(tr, left, tail, "&&", "EqExpr", "AndTail")
        ELSE left

_ast_OrExpr(tr, n) ==
    LET ks   == _kids(tr, n)
        left == IF ks # <<>> THEN _ast("AndExpr", tr, ks[1], None)
                ELSE ASTNode("Expr", "?", <<>>)
        tail == KidOr0(ks, 2)
    IN  IF tail # 0 THEN _fold_tail(tr, left, tail, "||", "AndExpr", "OrTail")
        ELSE left

_ast_AssignExpr(tr, n) ==
    LET ks   == _kids(tr, n)
        left == IF ks # <<>> THEN _ast("OrExpr", tr, ks[1], None)
                ELSE ASTNode("Expr", "?", <<>>)
        tail == KidOr0(ks, 2)
        tks  == IF tail = 0 THEN <<>> ELSE _kids(tr, tail)
    IN  IF tks = <<>> THEN left
        ELSE IF tr[tks[1]].symbol = "="
        THEN LET right == IF Len(tks) >= 2 THEN _ast("AssignExpr", tr, tks[2], None)
                          ELSE ASTNode("Expr", "?", <<>>)
             IN  ASTNode("Assign", None, <<left, right>>)
        ELSE left

\* what _ast_VarDeclRest and _ast_VarDeclMore build for one declarator
Var(name, arr, init) ==
    ASTNode("Var", name,
            (IF arr # <<>> THEN <<ASTNode("ArrayDims", None, Dims(arr))>>
             ELSE <<>>)
            \o Wrapped("Init", init))

_ast_VarDeclMore(tr, n) ==
    LET ks == _kids(tr, n)
    IN  IF ks = <<>> THEN <<>>
        ELSE LET init_decl == KidOr0(ks, 2)
                 rest == KidOr0(ks, 3)
                 iks  == IF init_decl # 0 THEN _kids(tr, init_decl) ELSE <<>>
                 name == IF Len(iks) >= 2 THEN _tok_text(tr, iks[2]) ELSE "?"
                 arr  == IF Len(iks) >= 3 THEN _ast("ArraySuffixOpt", tr, iks[3], None)
                         ELSE <<>>
                 init == IF Len(iks) >= 4 THEN _ast("InitOpt", tr, iks[4], None)
                         ELSE <<>>
             IN  (IF init_decl # 0 THEN <<Var(name, arr, init)>> ELSE <<>>)
                 \o (IF rest # 0 THEN _ast("VarDeclMore", tr, rest, None) ELSE <<>>)

_ast_VarDeclRest(tr, n, first_name) ==
    LET ks == _kids(tr, n)
    IN  IF Len(ks) < 3 THEN <<ASTNode("Var", first_name, <<>>)>>
        ELSE <<Var(first_name, _ast("ArraySuffixOpt", tr, ks[1], None),
                   _ast("InitOpt", tr, ks[2], None))>>
             \o _ast("VarDeclMore", tr, ks[3], None)

_ast_VarAfterId(tr, n, first_name) ==
    LET ks == _kids(tr, n)
    IN  IF ks = <<>> THEN <<>>
        ELSE <<ASTNode("Decls", None, _ast("VarDeclRest", tr, ks[1], first_name))>>

_ast_ExtAfterTypeSpec(tr, n, t) ==
    LET ks == _kids(tr, n)
    IN  IF ks = <<>> THEN <<ASTNode("External", None, <<t>>)>>
        ELSE IF tr[ks[1]].symbol = ";"
        THEN IF /\ t.kind \in {"StructType", "UnionType"}
                /\ \E i \in 1..Len(t.children) : t.children[i].kind = "Fields"
             THEN <<ASTNode(IF t.kind = "StructType" THEN "StructDef"
                            ELSE "UnionDef", t.value, t.children)>>
             ELSE <<ASTNode("TypeOnly", None, <<t>>)>>
        ELSE LET name     == _tok_text(tr, ks[2])
                 ptr      == _ast("PtrOpt", tr, ks[1], None)
                 after_id == KidOr0(ks, 3)
                 aks      == IF after_id # 0 THEN _kids(tr, after_id)
                             ELSE <<>>
             IN  IF aks # <<>> /\ tr[aks[1]].symbol = "("
                 THEN <<ASTNode("FuncDef", name,
                                <<t>> \o ptr \o _ast("FuncAfterId", tr, after_id, None))>>
                 ELSE <<ASTNode("GlobalDecl", None,
                                <<t>> \o ptr
                                \o (IF after_id # 0
                                    THEN _ast("VarAfterId", tr, after_id, name)
                                    ELSE <<>>))>>

_ast_ExtDef(tr, n) ==
    LET ks == _kids(tr, n)
    IN  IF ks = <<>> THEN <<>>
        ELSE IF tr[ks[1]].symbol = "Preprocess" THEN <<>>
        ELSE LET t     == _ast("TypeSpec", tr, ks[1], None)
                 after == KidOr0(ks, 2)
             IN  IF after = 0 THEN <<ASTNode("External", None, <<t>>)>>
                 ELSE _ast("ExtAfterTypeSpec", tr, after, t)

_ast_ExtList(tr, n) ==
    LET ks == _kids(tr, n)
    IN  IF ks = <<>> THEN <<>>
        ELSE LET rest == KidOr0(ks, 2)
             IN  _ast("ExtDef", tr, ks[1], None)
                 \o (IF rest # 0 THEN _ast("ExtList", tr, rest, None) ELSE <<>>)

_ast_P(tr, n) ==
    LET ks == _kids(tr, n)
    IN  ASTNode("Program", None,
                IF ks # <<>> THEN _ast("ExtList", tr, ks[1], None) ELSE <<>>)

\* the call _ast_<fn>(n) or _ast_<fn>(n, x): the functions of the builder
\* call one another by name
_ast(fn, tr, n, x) ==
    CASE fn = "PtrOpt" -> _ast_PtrOpt(tr, n)
      [] fn = "ArraySuffixOpt" -> _ast_ArraySuffixOpt(tr, n)
      [] fn = "InitListTail" -> _ast_InitListTail(tr, n)
      [] fn = "InitList" -> _ast_InitList(tr, n)
      [] fn = "InitListOpt" -> _ast_InitListOpt(tr, n)
      [] fn = "Initializer" -> _ast_Initializer(tr, n)
      [] fn = "InitOpt" -> _ast_InitOpt(tr, n)
      [] fn = "InitDecl" -> _ast_InitDecl(tr, n, x)
      [] fn = "InitDeclListTail" -> _ast_InitDeclListTail(tr, n, x)
      [] fn = "InitDeclList" -> _ast_InitDeclList(tr, n, x)
      [] fn = "DeclListOpt" -> _ast_DeclListOpt(tr, n)
      [] fn = "StructSpec" -> _ast_StructSpec(tr, n, x)
      [] fn = "UnionSpec" -> _ast_UnionSpec(tr, n, x)
      [] fn = "TypeSpec" -> _ast_TypeSpec(tr, n)
      [] fn = "Decl" -> _ast_Decl(tr, n)
      [] fn = "DeclList" -> _ast_DeclList(tr, n)
      [] fn = "Param" -> _ast_Param(tr, n)
      [] fn = "ParamListTail" -> _ast_ParamListTail(tr, n)
      [] fn = "ParamList" -> _ast_ParamList(tr, n)
      [] fn = "ParamListOpt" -> _ast_ParamListOpt(tr, n)
      [] fn = "FuncAfterId" -> _ast_FuncAfterId(tr, n)
      [] fn = "StmtListOpt" -> _ast_StmtListOpt(tr, n)
      [] fn = "StmtList" -> _ast_StmtList(tr, n)
      [] fn = "CompoundStmt" -> _ast_CompoundStmt(tr, n)
      [] fn = "ExprStmt" -> _ast_ExprStmt(tr, n)
      [] fn = "ElseOpt" -> _ast_ElseOpt(tr, n)
      [] fn = "IfStmt" -> _ast_IfStmt(tr, n)
      [] fn = "WhileStmt" -> _ast_WhileStmt(tr, n)
      [] fn = "ExprOpt" -> _ast_ExprOpt(tr, n)
      [] fn = "DeclForInit" -> _ast_DeclForInit(tr, n)
      [] fn = "ForInitOpt" -> _ast_ForInitOpt(tr, n)
      [] fn = "ForStmt" -> _ast_ForStmt(tr, n)
      [] fn = "ReturnStmt" -> _ast_ReturnStmt(tr, n)
      [] fn = "Stmt" -> _ast_Stmt(tr, n)
      [] fn = "Expr" -> _ast_Expr(tr, n)
      [] fn = "CONSTANT" -> _ast_CONSTANT(tr, n)
      [] fn = "Primary" -> _ast_Primary(tr, n)
      [] fn = "ArgListTail" -> _ast_ArgListTail(tr, n)
      [] fn = "ArgList" -> _ast_ArgList(tr, n)
      [] fn = "ArgListOpt" -> _ast_ArgListOpt(tr, n)
      [] fn = "PostfixExpr" -> _ast_PostfixExpr(tr, n)
      [] fn = "UnaryExpr" -> _ast_UnaryExpr(tr, n)
      [] fn = "MulExpr" -> _ast_MulExpr(tr, n)
      [] fn = "AddExpr" -> _ast_AddExpr(tr, n)
      [] fn = "RelExpr" -> _ast_RelExpr(tr, n)
      [] fn = "EqExpr" -> _ast_EqExpr(tr, n)
      [] fn = "AndExpr" -> _ast_AndExpr(tr, n)
      [] fn = "OrExpr" -> _ast_OrExpr(tr, n)
      [] fn = "AssignExpr" -> _ast_AssignExpr(tr, n)
      [] fn = "VarDeclMore" -> _ast_VarDeclMore(tr, n)
      [] fn = "VarDeclRest" -> _ast_VarDeclRest(tr, n, x)
      [] fn = "VarAfterId" -> _ast_VarAfterId(tr, n, x)
      [] fn = "ExtAfterTypeSpec" -> _ast_ExtAfterTypeSpec(tr, n, x)
      [] fn = "ExtDef" -> _ast_ExtDef(tr, n)
      [] fn = "ExtList" -> _ast_ExtList(tr, n)
      [] fn = "P" -> _ast_P(tr, n)

\* build_ast(root); the root is the first node the parser created
build_ast(tr) ==
    IF tr[1].symbol # "P"
    THEN ASTNode("Program", None,
                 <<ASTNode("UnknownRoot", tr[1].symbol, <<>>)>>)
    ELSE _ast("P", tr, 1, None)

\* S1: one declaration:  int a;
S1_Text ==
    <<"i", "n", "t", " ", "a", ";">>

\* S2: one function:  int main(){ return 0; }
S2_Text ==
    <<"i", "n", "t", " ", "m", "a", "i", "n", "(", ")", "{", " ", "r", "e",
      "t", "u", "r", "n", " ", "0", ";", " ", "}">>

\* S3: a struct tag used as a type name:  struct S { int x; }; S v;
S3_Text ==
    <<"s", "t", "r", "u", "c", "t", " ", "S", " ", "{", " ", "i", "n", "t",
      " ", "x", ";", " ", "}", ";", " ", "S", " ", "v", ";">>

\* S4: the nested if, as the whole source text:  if (a) if (b) c; else d;
S4_Text ==
    <<"i", "f", " ", "(", "a", ")", " ", "i", "f", " ", "(", "b", ")", " ",
      "c", ";", " ", "e", "l", "s", "e", " ", "d", ";">>

\* the statement of S4 as the body of a function:  int f(){ if (a) if (b) c; else d; }
S4_InFunction ==
    <<"i", "n", "t", " ", "f", "(", ")", "{", " ", "i", "f", " ", "(", "a",
      ")", " ", "i", "f", " ", "(", "b", ")", " ", "c", ";", " ", "e", "l",
      "s", "e", " ", "d", ";", " ", "}">>

\* S5: an initializer mixing + and *:  int x = 1 + 2 * 3;
S5_Text ==
    <<"i", "n", "t", " ", "x", " ", "=", " ", "1", " ", "+", " ", "2", " ",
      "*", " ", "3", ";">>

\* S6: a number with a bad suffix:  int 1x;
S6_BadSuffix ==
    <<"i", "n", "t", " ", "1", "x", ";">>

\* S6: a character no token starts with:  int x@;
S6_BadChar ==
    <<"i", "n", "t", " ", "x", "@", ";">>

\* an if without its parenthesis:  int f(){ if a; }
IfWithoutParen ==
    <<"i", "n", "t", " ", "f", "(", ")", "{", " ", "i", "f", " ", "a", ";",
      " ", "}">>

\* an initializer with * before -:  int y = 1 * 2 - 3;
MulThenAdd ==
    <<"i", "n", "t", " ", "y", " ", "=", " ", "1", " ", "*", " ", "2", " ",
      "-", " ", "3", ";">>

\* two empty statements in a row:  int f(){;;}
EmptyStmts ==
    <<"i", "n", "t", " ", "f", "(", ")", "{", ";", ";", "}">>

\* a chain of assignments:  int f(){ a = b = c; }
ChainAssign ==
    <<"i", "n", "t", " ", "f", "(", ")", "{", " ", "a", " ", "=", " ", "b",
      " ", "=", " ", "c", ";", " ", "}">>

\* a chain of ||:  int f(){ a = b || c || d; }
ChainOr ==
    <<"i", "n", "t", " ", "f", "(", ")", "{", " ", "a", " ", "=", " ", "b",
      " ", "|", "|", " ", "c", " ", "|", "|", " ", "d", ";", " ", "}">>

\* a chain of &&:  int f(){ a = b && c && d; }
ChainAnd ==
    <<"i", "n", "t", " ", "f", "(", ")", "{", " ", "a", " ", "=", " ", "b",
      " ", "&", "&", " ", "c", " ", "&", "&", " ", "d", ";", " ", "}">>

\* a chain of == and !=:  int f(){ a = b == c != d; }
ChainEq ==
    <<"i", "n", "t", " ", "f", "(", ")", "{", " ", "a", " ", "=", " ", "b",
      " ", "=", "=", " ", "c", " ", "!", "=", " ", "d", ";", " ", "}">>

\* a chain of relational operators:  int f(){ a = b < c >= d; }
ChainRel ==
    <<"i", "n", "t", " ", "f", "(", ")", "{", " ", "a", " ", "=", " ", "b",
      " ", "<", " ", "c", " ", ">", "=", " ", "d", ";", " ", "}">>

\* a chain of - and +:  int f(){ a = b - c + d; }
ChainAdd ==
    <<"i", "n", "t", " ", "f", "(", ")", "{", " ", "a", " ", "=", " ", "b",
      " ", "-", " ", "c", " ", "+", " ", "d", ";", " ", "}">>

\* a chain of /, * and %:  int f(){ a = b / c * d % e; }
ChainMul ==
    <<"i", "n", "t", " ", "f", "(", ")", "{", " ", "a", " ", "=", " ", "b",
      " ", "/", " ", "c", " ", "*", " ", "d", " ", "%", " ", "e", ";", " ",
      "}">>

ParseInputs ==
    {S1_Text, S2_Text, S3_Text, S4_Text,
     S4_InFunction, S5_Text, S6_BadSuffix, S6_BadChar,
     IfWithoutParen, MulThenAdd, EmptyStmts, ChainAssign,
     ChainOr, ChainAnd, ChainEq, ChainRel,
     ChainAdd, ChainMul}

(***************************************************************************)
(* The parse as a state machine: parse_source, then one action per kind    *)
(* of step, then build_ast on the tree of an accepted source.              *)
(***************************************************************************)
Running == outcome = "running" /\ stack # <<>>

\* X, the entry on top of the stack, and a, the terminal of the lookahead
Top == stack[Len(stack)]
LookToken == token_at(tokens, cursor)
Look == token_to_symbol(LookToken, type_names)
Popped == SubSeq(stack, 1, Len(stack) - 1)

\* parser.parse_source(text, return_tree=True) up to its first step: the
\* text is tokenized, EOF then the start symbol are pushed
ParseSource ==
    /\ phase = "table" /\ allow_conflict /\ raised = <<>>
    /\ outcome = "none"
    /\ \E t \in ParseInputs :
         /\ source' = t
         /\ tokens' = tokenize(t)
    /\ cursor' = 0
    /\ stack' = <<Entry(END_SYMBOL, 0, ""), Entry(start_symbol, 0, "")>>
    /\ tree' = <<>>
    /\ type_names' = {}
    /\ matched' = <<>>
    /\ outcome' = "running"
    /\ UNCHANGED <<ast, lexVars, mcall, priVars, ffVars, tblVars, mainVars, rdVars>>

\* token_to_symbol on an ERROR token: the parse fails with a lexical error
LexicalError ==
    /\ Running
    /\ LookToken.type = "ERROR"
    /\ outcome' = "lexical error"
    /\ UNCHANGED <<source, tokens, cursor, stack, tree, type_names, matched,
                   ast, lexVars, mcall, priVars, ffVars, tblVars, mainVars, rdVars>>

\* step, case 1: EOF on the stack and EOF in the input
Accept ==
    /\ Running
    /\ LookToken.type # "ERROR"
    /\ Top.symbol = END_SYMBOL /\ Look = END_SYMBOL
    /\ outcome' = "accept"
    /\ stack' = Popped
    /\ UNCHANGED <<source, tokens, cursor, tree, type_names, matched, ast,
                   lexVars, mcall, priVars, ffVars, tblVars, mainVars, rdVars>>

\* a step 2 that, having matched a token, also drops the next token when it
\* repeats the matched one
Match_skipping ==
    /\ Running
    /\ LookToken.type # "ERROR"
    /\ Top.symbol \in terminals
    /\ Top.symbol = Look /\ Look # END_SYMBOL
    /\ stack' = Popped
    /\ type_names' = IF Top.role = "tag_name"
                     THEN type_names \cup {Str(LookToken.lexeme)}
                     ELSE type_names
    /\ tree' = Append(tree, Node(Top.symbol, Str(LookToken.lexeme),
                                 Top.parent))
    /\ matched' = Append(matched, LookToken.lexeme)
    /\ cursor' = IF token_at(tokens, cursor + 1).lexeme = LookToken.lexeme
                 THEN cursor + 2 ELSE cursor + 1
    /\ UNCHANGED <<source, tokens, outcome, ast, lexVars, mcall, priVars,
                   ffVars, tblVars, mainVars, rdVars>>

\* step, case 2, X = a: the token is consumed and becomes a leaf
Match ==
    /\ Running
    /\ LookToken.type # "ERROR"
    /\ Top.symbol \in terminals
    /\ Top.symbol = Look /\ Look # END_SYMBOL
    /\ stack' = Popped
    /\ type_names' = IF Top.role = "tag_name"
                     THEN type_names \cup {Str(LookToken.lexeme)}
                     ELSE type_names
    /\ tree' = Append(tree, Node(Top.symbol, Str(LookToken.lexeme),
                                 Top.parent))
    /\ matched' = Append(matched, LookToken.lexeme)
    /\ cursor' = cursor + 1
    /\ UNCHANGED <<source, tokens, outcome, ast, lexVars, mcall, priVars,
                   ffVars, tblVars, mainVars, rdVars>>

\* step, case 2, X # a: "expected X, saw a"
Mismatch ==
    /\ Running
    /\ LookToken.type # "ERROR"
    /\ Top.symbol \in terminals
    /\ Top.symbol # Look
    /\ outcome' = "mismatch"
    /\ stack' = Popped
    /\ UNCHANGED <<source, tokens, cursor, tree, type_names, matched, ast,
                   lexVars, mcall, priVars, ffVars, tblVars, mainVars, rdVars>>

\* step, case 3, with p = table[X][a]: a node for X, and the body of p
\* pushed, or an epsilon leaf for the body (epsilon,)
Expand ==
    /\ Running
    /\ LookToken.type # "ERROR"
    /\ Top.symbol \in nonterminals
    /\ <<Top.symbol, Look>> \in DOMAIN table
    /\ LET p == table[<<Top.symbol, Look>>]
           n == Len(tree) + 1
           withX == Append(tree, Node(Top.symbol, "", Top.parent))
       IN  IF p.body = <<EPSILON>>
           THEN /\ tree' = Append(withX, Node(EPSILON, "", n))
                /\ stack' = Popped
           ELSE /\ tree' = withX
                /\ stack' = Popped \o pushed(p, n)
    /\ UNCHANGED <<source, tokens, cursor, type_names, matched, outcome, ast,
                   lexVars, mcall, priVars, ffVars, tblVars, mainVars, rdVars>>

\* step, case 3, table[X][a] missing: "at X, no production for a"
TableMiss ==
    /\ Running
    /\ LookToken.type # "ERROR"
    /\ Top.symbol \in nonterminals
    /\ <<Top.symbol, Look>> \notin DOMAIN table
    /\ outcome' = "no production"
    /\ stack' = Popped
    /\ UNCHANGED <<source, tokens, cursor, tree, type_names, matched, ast,
                   lexVars, mcall, priVars, ffVars, tblVars, mainVars, rdVars>>

\* main.py with --show-ast, after the parse succeeded: build_ast(tree)
BuildAst ==
    /\ exit_status = <<>>
    /\ outcome = "accept" /\ ast = <<>>
    /\ ast' = <<build_ast(tree)>>
    /\ UNCHANGED <<source, tokens, cursor, stack, tree, type_names, matched,
                   outcome, lexVars, mcall, priVars, ffVars, tblVars, mainVars, rdVars>>

\* main, `if not args.source:` prints the usage line and exits
Usage ==
    /\ exit_status = <<>> /\ phase = "start"
    /\ args_source = None
    /\ exit_status' = <<2>>
    /\ UNCHANGED <<args_source, lexVars, mcall, priVars, ffVars, tblVars,
                   parseVars, rdVars>>

\* main, `if not src_path.exists():` reports the missing file and exits
SourceNotFound ==
    /\ exit_status = <<>> /\ phase = "start"
    /\ args_source # None /\ ~Exists(args_source)
    /\ exit_status' = <<1>>
    /\ UNCHANGED <<args_source, lexVars, mcall, priVars, ffVars, tblVars,
                   parseVars, rdVars>>

\* main, `except ParseError as e:` reports the error and exits
ExitOnParseError ==
    /\ exit_status = <<>>
    /\ outcome \in {"lexical error", "mismatch", "no production"}
    /\ exit_status' = <<1>>
    /\ UNCHANGED <<args_source, lexVars, mcall, priVars, ffVars, tblVars,
                   parseVars, rdVars>>

\* main returns after the try block: the interpreter exits with status 0
ExitAtEnd ==
    /\ exit_status = <<>>
    /\ outcome = "accept"
    /\ exit_status' = <<0>>
    /\ UNCHANGED <<args_source, lexVars, mcall, priVars, ffVars, tblVars,
                   parseVars, rdVars>>

NextG ==
    \/ Usage \/ SourceNotFound
    \/ BuildGrammar
    \/ BeginFirst \/ FirstPass \/ BeginFollow \/ FollowPass \/ EndFollow
    \/ ComputeSelect \/ BuildTable
    \/ ParseSource
    \/ LexicalError \/ Accept \/ Match \/ Mismatch \/ Expand \/ TableMiss
    \/ BuildAst
    \/ ExitOnParseError \/ ExitAtEnd

SpecG == InitG /\ [][NextG]_vars

(***************************************************************************)
(* The claims about the built-in grammar, its table and the parse,         *)
(* checked under SpecG.                                                    *)
(***************************************************************************)
BuiltIn == prods = build_grammar
Finished == outcome \notin {"none", "running"}

(***************************************************************************)
(* C18  (as stated)  The built-in grammar is LL(1): any two distinct       *)
(* productions with the same head have disjoint SELECT sets, so the table  *)
(* built over it records no conflict and strict mode does not fail.        *)
(* The statement does not hold of build_grammar(): three pairs of          *)
(* productions share a terminal (DeclListOpt, StmtListOpt and ElseOpt,     *)
(* each with its epsilon alternative), permissive mode records three       *)
(* conflicts and strict mode raises on the first.                          *)
(***************************************************************************)
C18_BuiltinLL1 ==
    /\ (SelectComputed /\ BuiltIn) =>
          \A i, j \in 1..Len(prods) :
              (prods[i] # prods[j] /\ prods[i].head = prods[j].head) =>
                  SelectOf(prods[i]) \cap SelectOf(prods[j]) = {}
    /\ (TableBuilt /\ BuiltIn) => (conflicts = <<>> /\ raised = <<>>)

(***************************************************************************)
(* C19  Dangling else.  In the permissive table of the built-in grammar    *)
(* the cell [ElseOpt, else] holds ElseOpt -> else Stmt, and every step     *)
(* the parser takes with ElseOpt on top of the stack and `else` as the     *)
(* lookahead expands ElseOpt by that production under the innermost if     *)
(* statement that has no ElseOpt yet: `else` and Stmt are pushed, `else`   *)
(* on top.                                                                 *)
(***************************************************************************)
ElseShift == Production("ElseOpt", <<"else", "Stmt">>)

\* the IfStmt nodes whose ElseOpt has not been expanded yet
OpenIfs ==
    {k \in 1..Len(tree) :
        /\ tree[k].symbol = "IfStmt"
        /\ ~\E c \in 1..Len(tree) :
              tree[c].parent = k /\ tree[c].symbol = "ElseOpt"}

ElseOnTop ==
    /\ Running /\ LookToken.type # "ERROR"
    /\ Top.symbol = "ElseOpt" /\ Look = "else"

C19_Cell ==
    (TableBuilt /\ BuiltIn /\ allow_conflict) =>
        /\ <<"ElseOpt", "else">> \in DOMAIN table
        /\ table[<<"ElseOpt", "else">>] = ElseShift

C19_Step ==
    ElseOnTop =>
        /\ Top.parent \in OpenIfs
        /\ \A k \in OpenIfs : k <= Top.parent
        /\ tree' = Append(tree, Node("ElseOpt", "", Top.parent))
        /\ stack' = Popped \o <<Entry("Stmt", Len(tree) + 1, ""),
                                Entry("else", Len(tree) + 1, "")>>
        /\ cursor' = cursor /\ outcome' = outcome

C19_DanglingElse == []C19_Cell /\ [][C19_Step]_vars

\* an `else` was shifted into an inner if while an outer if was still open
C19_Witness ==
    /\ BuiltIn /\ outcome = "accept"
    /\ \E e, k1 \in 1..Len(tree) :
          /\ tree[e].symbol = "ElseOpt"
          /\ \E l \in 1..Len(tree) :
                tree[l].parent = e /\ tree[l].symbol = "else"
          /\ tree[k1].symbol = "IfStmt" /\ k1 < tree[e].parent
          /\ \E c \in 1..Len(tree) :
                tree[c].parent = k1 /\ tree[c].symbol = "ElseOpt" /\ c > e

(***************************************************************************)
(* C20  (as stated)  The text `if (a) if (b) c; else d;`, given as the     *)
(* whole source, is accepted, and in its AST the outer If has as its Then  *)
(* another If whose Else holds `d;`.  The statement does not hold: the     *)
(* parse fails at the first token, the table having no entry [P, if].      *)
(***************************************************************************)
Id(name) == ASTNode("Id", name, <<>>)
ExprStmtOf(name) == ASTNode("ExprStmt", None, <<Id(name)>>)

\* If(Cond a, Then(If(Cond b, Then(c;), Else(d;)))): the outer If has no Else
NestedIf ==
    ASTNode("If", None,
        <<ASTNode("Cond", None, <<Id("a")>>),
          ASTNode("Then", None,
              <<ASTNode("If", None,
                    <<ASTNode("Cond", None, <<Id("b")>>),
                      ASTNode("Then", None, <<ExprStmtOf("c")>>),
                      ASTNode("Else", None, <<ExprStmtOf("d")>>)>>)>>)>>)

\* x is a or a node below a
RECURSIVE Within(_, _)
Within(x, a) ==
    x = a \/ \E i \in 1..Len(a.children) : Within(x, a.children[i])

C20_S4Accepted ==
    /\ (source = S4_Text /\ Finished) => outcome = "accept"
    /\ (source = S4_Text /\ ast # <<>>) => Within(NestedIf, ast[1])

(***************************************************************************)
(* C20  (amended)  Given as the whole source the text is rejected at its   *)
(* first token, no tree being built: statements are derived only inside a  *)
(* function body.  As the body of a function,                              *)
(* `int f(){ if (a) if (b) c; else d; }`, it is accepted, and the AST is   *)
(* Program(FuncDef f(Type int, Params, Block(If))) where the If has the    *)
(* children Cond(a) and Then(If(Cond(b), Then(c;), Else(d;))) and no Else  *)
(* of its own.                                                             *)
(***************************************************************************)
C20_S4InFunctionBody ==
    /\ (source = S4_Text /\ Finished) =>
          /\ outcome = "no production"
          /\ cursor = 0 /\ matched = <<>>
          /\ tree = <<>>
    /\ (source = S4_InFunction /\ Finished) => outcome = "accept"
    /\ (source = S4_InFunction /\ ast # <<>>) =>
          ast[1] = ASTNode("Program", None,
                     <<ASTNode("FuncDef", "f",
                         <<ASTNode("Type", "int", <<>>),
                           ASTNode("Params", None, <<>>),
                           ASTNode("Block", None, <<NestedIf>>)>>)>>)

C20_Witness ==
    /\ source = S4_InFunction /\ outcome = "accept" /\ ast # <<>>
    /\ Within(NestedIf, ast[1])

(***************************************************************************)
(* C21  Round trip on accepted inputs.  When the parse accepts, the        *)
(* lexemes of the tokens matched against terminals, in the order they      *)
(* were matched and without EOF, are the lexemes of Lexer.tokenize(source) *)
(* in order: no token was skipped, duplicated or reordered.                *)
(***************************************************************************)
Lexemes(toks) == [k \in 1..Len(toks) |-> toks[k].lexeme]

C21_RoundTrip ==
    outcome = "accept" => matched = Lexemes(tokenize(source))

\* an accepted source with the same token twice in a row
C21_Witness ==
    /\ outcome = "accept" /\ source = EmptyStmts
    /\ Len(matched) = 8 /\ matched[6] = matched[7]

(***************************************************************************)
(* C22  The dynamic type-name set.  A step changes type_names only when    *)
(* it matches a token against the ID that is the second body symbol of a   *)
(* StructSpec or UnionSpec production, and that step adds the token's      *)
(* lexeme; an identifier token matched while its lexeme is in the set      *)
(* becomes a TYPE_NAME leaf, any other identifier token an ID leaf.        *)
(* `struct S { int x; }; S v;` is accepted, its second S a TYPE_NAME.      *)
(***************************************************************************)
\* the entry on top stands for the second body symbol, ID, of a production
\* of StructSpec or UnionSpec
TagOnTop ==
    /\ Running /\ LookToken.type # "ERROR"
    /\ Top.symbol = "ID" /\ Top.parent > 0
    /\ tree[Top.parent].symbol \in TagHeads
    /\ Len(children(tree, Top.parent)) = 1

C22_SetStep ==
    /\ type_names' # type_names =>
          /\ TagOnTop /\ Look = "ID"
          /\ type_names' = type_names \cup {Str(LookToken.lexeme)}
          /\ cursor' = cursor + 1
    /\ (TagOnTop /\ Look = "ID") =>
          Str(LookToken.lexeme) \in type_names'

C22_Classified ==
    (Running /\ cursor' = cursor + 1 /\ LookToken.type = "ID") =>
        /\ Len(tree') = Len(tree) + 1
        /\ tree'[Len(tree')].lexeme = Str(LookToken.lexeme)
        /\ tree'[Len(tree')].symbol =
              IF Str(LookToken.lexeme) \in type_names
              THEN "TYPE_NAME" ELSE "ID"

C22_S3 ==
    (Finished /\ source = S3_Text) =>
        /\ outcome = "accept"
        /\ type_names = {"S"}
        /\ \E k \in 1..Len(tree) :
              /\ tree[k] = Node("TYPE_NAME", "S", tree[k].parent)
              /\ \E j \in 1..(k - 1) : tree[j].symbol = "ID"
                                        /\ tree[j].lexeme = "S"

C22_TypeNames == []C22_S3 /\ [][C22_SetStep /\ C22_Classified]_vars

\* S3 was accepted: S entered the set and its second occurrence was
\* matched as a TYPE_NAME
C22_Witness ==
    /\ outcome = "accept" /\ source = S3_Text
    /\ type_names = {"S"}
    /\ \E k \in 1..Len(tree) : tree[k].symbol = "TYPE_NAME"

(***************************************************************************)
(* C23  (as stated)  main.py exits with status 0 when the parse succeeds,  *)
(* with 1 when the parse fails with a syntax or lexical error, and with 2  *)
(* on a usage error or when the source file does not exist.                *)
(* The statement does not hold of main(): for a path that names no file    *)
(* it exits with status 1.                                                 *)
(***************************************************************************)
Exited == exit_status # <<>>

C23_ExitStatus ==
    Exited =>
        exit_status =
            IF args_source = None \/ ~Exists(args_source) THEN <<2>>
            ELSE IF outcome = "accept" THEN <<0>>
            ELSE <<1>>

\* what main() does: 2 only without a source argument, 1 for a missing
\* file as for a failed parse, 0 for an accepted source
C23_ExitStatusOfMain ==
    Exited =>
        /\ exit_status =
              IF args_source = None THEN <<2>>
              ELSE IF ~Exists(args_source) THEN <<1>>
              ELSE IF outcome = "accept" THEN <<0>>
              ELSE <<1>>
        /\ (args_source # None /\ Exists(args_source)) => Finished

C23_MissingFile ==
    Exited /\ args_source = "missing.c" /\ exit_status = <<1>>

(***************************************************************************)
(* C24  The symbol sets of a grammar.  After any sequence of Grammar.add   *)
(* calls, nonterminals is the set of the heads of the productions and no   *)
(* production has an empty body: an empty body was stored as (epsilon,).   *)
(* After finalize, terminals is the body symbols without the nonterminals  *)
(* and without epsilon, plus EOF; terminals and nonterminals are disjoint  *)
(* and epsilon is in neither.                                              *)
(***************************************************************************)
BodySymbols == UNION {SeqRange(prods[k].body) : k \in 1..Len(prods)}
Finalized == phase \notin {"build", "start", "idle"}
(***************************************************************************)
Literal(v) == ASTNode("Literal", v, <<>>)
Binary(op, l, r) == ASTNode("Binary", op, <<l, r>>)

\* the AST of `int name = e;` as the whole source
GlobalInt(name, e) ==
    ASTNode("Program", None,
        <<ASTNode("GlobalDecl", None,
            <<ASTNode("Type", "int", <<>>),
              ASTNode("Decls", None,
                  <<ASTNode("Var", name,
                        <<ASTNode("Init", None, <<e>>)>>)>>)>>)>>)

C25_Precedence ==
    /\ (Finished /\ source \in {S5_Text, MulThenAdd}) => outcome = "accept"
    /\ (source = S5_Text /\ ast # <<>>) =>
          ast[1] = GlobalInt("x",
                     Binary("+", Literal("1"),
                            Binary("*", Literal("2"), Literal("3"))))
    /\ (source = MulThenAdd /\ ast # <<>>) =>
          ast[1] = GlobalInt("y",
                     Binary("-", Binary("*", Literal("1"), Literal("2")),
                            Literal("3")))

C25_Witness ==
    /\ source = S5_Text /\ outcome = "accept" /\ ast # <<>>
    /\ Within(Binary("*", Literal("2"), Literal("3")), ast[1])

(***************************************************************************)
(* C29  Associativity in the AST.  build_ast folds the tail of a chain of  *)
(* binary operators to the left, a op b op c becoming (a op b) op c, at    *)
(* each level: ||, &&, == and !=, the relational operators, + and -,       *)
(* `*`, / and %.  A chain of assignments folds to the right:               *)
(* a = b = c becomes Assign(a, Assign(b, c)).                              *)
(***************************************************************************)
Assign(l, r) == ASTNode("Assign", None, <<l, r>>)

\* the AST of `int f(){ e; }` as the whole source
BodyOfF(e) ==
    ASTNode("Program", None,
        <<ASTNode("FuncDef", "f",
            <<ASTNode("Type", "int", <<>>),
              ASTNode("Params", None, <<>>),
              ASTNode("Block", None,
                  <<ASTNode("ExprStmt", None, <<e>>)>>)>>)>>)

\* (b op1 c) op2 d
LeftFold(op1, op2) == Binary(op2, Binary(op1, Id("b"), Id("c")), Id("d"))

\* the expression each chain is to become
Folded ==
    << <<ChainAssign, Assign(Id("a"), Assign(Id("b"), Id("c")))>>,
       <<ChainOr,  Assign(Id("a"), LeftFold("||", "||"))>>,
       <<ChainAnd, Assign(Id("a"), LeftFold("&&", "&&"))>>,
       <<ChainEq,  Assign(Id("a"), LeftFold("==", "!="))>>,
       <<ChainRel, Assign(Id("a"), LeftFold("<", ">="))>>,
       <<ChainAdd, Assign(Id("a"), LeftFold("-", "+"))>>,
       <<ChainMul, Assign(Id("a"),
                          Binary("%", LeftFold("/", "*"), Id("e")))>> >>

C29_Folds ==
    \A k \in 1..Len(Folded) :
        /\ (Finished /\ source = Folded[k][1]) => outcome = "accept"
        /\ (source = Folded[k][1] /\ ast # <<>>) =>
              ast[1] = BodyOfF(Folded[k][2])

\* the AST of the chain of - and + has been built, folded to the left
C29_Witness ==
    /\ source = ChainAdd /\ outcome = "accept" /\ ast # <<>>
    /\ Within(Binary("-", Id("b"), Id("c")), ast[1])

(***************************************************************************)
(* C26  Termination and fixed point of the FIRST and FOLLOW loops.  Once   *)
(* compute_first_sets has entered its `while changed` loop it leaves it,   *)
(* and so does compute_follow_sets; a pass sets `changed` exactly when a   *)
(* set grew; when a loop has been left, one more pass over the             *)
(* productions leaves every FIRST set, and every FOLLOW set, as it is.     *)
(***************************************************************************)
FirstReturned  == (phase = "first" /\ ~changed) \/ phase \in {"follow", "done",
                                                              "select", "table"}
FollowReturned == (phase = "follow" /\ ~changed) \/ phase \in {"done", "select",
                                                               "table"}

C26_FixedPoint ==
    /\ FirstReturned => first_pass(prods, first, terminals).sets = first
    /\ FollowReturned =>
          follow_pass(prods, first, follow, terminals, nonterminals).sets
             = follow

C26_ChangeDetected ==
    /\ (phase = "first" /\ phase' = "first") => (changed' <=> first' # first)
    /\ (phase = "follow" /\ phase' = "follow") =>
          (changed' <=> follow' # follow)

C26_Terminates ==
    /\ []C26_FixedPoint
    /\ [][C26_ChangeDetected]_vars
    /\ (phase = "first" /\ changed) ~> (phase = "first" /\ ~changed)
    /\ (phase = "follow" /\ changed) ~> (phase = "follow" /\ ~changed)

\* both loops were left for S -> A, A -> a: S -> A is visited first, so
\* FIRST(S) gets `a` only in the second pass and a third pass ends the loop
C26_Witness ==
    /\ phase = "done"
    /\ prods = <<Production("S", <<"A">>), Production("A", <<"a">>)>>
    /\ first["S"] = {"a"}
    /\ follow["A"] = {END_SYMBOL}

(***************************************************************************)
(* C27  Progress of the lexer.  A call of next_token that returns a token  *)
(* other than EOF, an ERROR token included, returns a non-empty lexeme     *)
(* that is the text between the token's first character and the new pos,   *)
(* and leaves pos greater than it was; pos never exceeds len(text); once   *)
(* EOF has been returned, every later call returns EOF.  tokenize          *)
(* therefore returns, and its list holds no EOF token.                     *)
(***************************************************************************)
C27_Call ==
    /\ tok'.type # "EOF" =>
          /\ tok'.lexeme # <<>>
          /\ tok'.lexeme = Slice(text, start', pos')
          /\ pos <= start' /\ start' < pos'
    /\ tok.type = "EOF" => tok'.type = "EOF"

C27_InText == pos <= Len(text)

\* after EOF the next call returns EOF and leaves the lexer where it is
C27_EofStays ==
    tok.type = "EOF" =>
        LET st == [pos |-> pos, line |-> line, col |-> col]
            r  == next_token(text, st)
        IN  r.tok.type = "EOF" /\ r.st = st

C27_Tokenized ==
    LET out == tokenize(text)
    IN  /\ \A k \in 1..Len(out) : out[k].type # "EOF" /\ out[k].lexeme # <<>>
        /\ Len(out) <= Len(text)

C27_Progress ==
    /\ []C27_InText /\ []C27_EofStays /\ []C27_Tokenized
    /\ [][C27_Call]_vars

\* an unterminated string whose matcher length runs past the end of the
\* text was returned as an ERROR token, and EOF after it
C27_Witness ==
    /\ text = <<"\"", "\\">>
    /\ match_string_or_char(text, 0)[1] > Len(text)
    /\ tok.type = "EOF" /\ pos = Len(text)

(***************************************************************************)
(* C30  Determinism of the table.  For a grammar and its SELECT sets, and  *)
(* in either mode, whatever the order in which the loop `for a in sel`     *)
(* visits the terminals of each SELECT set, from_grammar ends with the     *)
(* same cells holding the same productions and with the same set of        *)
(* conflicts (cell, production kept, production rejected); only the order  *)
(* of the conflict messages of one production can differ.                  *)
(***************************************************************************)
SameTable(r1, r2) ==
    /\ r1.table = r2.table
    /\ SeqRange(r1.conflicts) = SeqRange(r2.conflicts)
    /\ Len(r1.conflicts) = Len(r2.conflicts)
    /\ (r1.raised = <<>>) <=> (r2.raised = <<>>)

C30_Deterministic ==
    /\ SelectComputed =>
          \A allow \in BOOLEAN :
              \A r1, r2 \in from_grammar(select, allow) : SameTable(r1, r2)
    /\ (TableBuilt /\ raised = <<>>) =>
          \A r \in from_grammar(select, allow_conflict) :
              /\ r.table = table
              /\ SeqRange(r.conflicts) = SeqRange(conflicts)

\* a table was built where the visiting order shows: one production met
\* two conflicts, and their messages can come in either order
C30_Witness ==
    /\ TableBuilt /\ allow_conflict
    /\ Cardinality({r.conflicts : r \in from_grammar(select, TRUE)}) >= 2
    /\ conflicts # <<>>

(***************************************************************************)
(* service/parser.py: the recursive-descent Parser with panic-mode         *)
(* recovery, as main_parser.py runs it.  T is the list of tokens the       *)
(* lexer returns before EOF.  A parser state st is [pos, errors, status]:  *)
(* pos is the number of tokens consumed, so that the lookahead is the      *)
(* token after them, errors is Parser.errors, each entry the pos its       *)
(* error was reported at, and status is "ok" while the parse runs,         *)
(* "raised" once an exception is on its way up the stack, and "diverged"   *)
(* once a loop has been found to repeat an iteration in the state it       *)
(* began it in.  The AST nodes the functions return are left out: no       *)
(* branch of the parser reads them.                                        *)
(***************************************************************************)
TYPE_KEYWORDS ==
    {<<"i", "n", "t">>, <<"c", "h", "a", "r">>, <<"f", "l", "o", "a", "t">>,
     <<"d", "o", "u", "b", "l", "e">>, <<"v", "o", "i", "d">>}
KW_UNION == <<"u", "n", "i", "o", "n">>

is_kw(tk, word) == tk.type = "RW" /\ tk.lexeme = word
is_type_kw(tk) == tk.type = "RW" /\ tk.lexeme \in TYPE_KEYWORDS
is_union_kw(tk) == tk.type = "RW" /\ tk.lexeme = KW_UNION
is_dl(tk, ch) == tk.type = "DL" /\ tk.lexeme = ch
is_dl_or_op(tk, ch) == tk.type \in {"DL", "OP"} /\ tk.lexeme = ch
is_op(tk, op) == tk.type = "OP" /\ tk.lexeme = op
is_id(tk) == tk.type = "ID"
is_const(tk) ==
    tk.type \in {"NUM10", "NUM8", "NUM16", "FLOAT", "CS_CHAR", "CS_STR"}

\* Parser.lookahead: the token after the consumed ones; the lexer returns
\* EOF once the tokens are used up, and again at every later call
lookahead(T, st) ==
    IF st.pos < Len(T) THEN T[st.pos + 1] ELSE Token("EOF", <<>>, 0, 0)

\* Parser.advance
Parser_advance(T, st) ==
    IF st.status # "ok" THEN st
    ELSE [st EXCEPT !.pos = IF @ < Len(T) THEN @ + 1 ELSE @]

\* Parser.error
Parser_error(T, st) ==
    IF st.status # "ok" THEN st
    ELSE [st EXCEPT !.errors = Append(@, st.pos)]

match_kw(T, st, word) ==
    IF is_kw(lookahead(T, st), word) THEN Parser_advance(T, st)
    ELSE Parser_error(T, st)

match_dl(T, st, ch) ==
    IF is_dl(lookahead(T, st), ch) THEN Parser_advance(T, st)
    ELSE Parser_error(T, st)

\* match_id(), which returns None exactly when the lookahead is no ID
match_id(T, st) ==
    IF is_id(lookahead(T, st)) THEN Parser_advance(T, st)
    ELSE Parser_error(T, st)

\* int(lexeme, 0) raises ValueError: the lexeme of an integer token has a
\* leading zero, is no 0x literal and has a digit other than zero
int_raises(lexeme) ==
    /\ Len(lexeme) >= 2 /\ lexeme[1] = "0"
    /\ lexeme[2] \notin {"x", "X"}
    /\ \E k \in 2..Len(lexeme) : lexeme[k] # "0"

Raise(st) == IF st.status # "ok" THEN st ELSE [st EXCEPT !.status = "raised"]

SEMI   == <<";">>
LBRACE == <<"{">>
RBRACE == <<"}">>
LPAREN == <<"(">>
RPAREN == <<")">>
LBRACK == <<"[">>
RBRACK == <<"]">>
COMMA  == <<",">>

\* the operators of each level of binary expressions and the function of
\* the level below
BinaryOps(level) ==
    CASE level = "parse_or_expr"  -> {<<"|", "|">>}
      [] level = "parse_and_expr" -> {<<"&", "&">>}
      [] level = "parse_eq_expr"  -> {<<"=", "=">>, <<"!", "=">>}
      [] level = "parse_rel_expr" -> {<<"<">>, <<">">>, <<"<", "=">>,
                                      <<">", "=">>}
      [] level = "parse_add_expr" -> {<<"+">>, <<"-">>}
      [] level = "parse_mul_expr" -> {<<"*">>, <<"/">>, <<"%">>}

BinaryBelow(level) ==
    CASE level = "parse_or_expr"  -> "parse_and_expr"
      [] level = "parse_and_expr" -> "parse_eq_expr"
      [] level = "parse_eq_expr"  -> "parse_rel_expr"
      [] level = "parse_rel_expr" -> "parse_add_expr"
      [] level = "parse_add_expr" -> "parse_mul_expr"
      [] level = "parse_mul_expr" -> "parse_unary_expr"

BinaryLevels == {"parse_or_expr", "parse_and_expr", "parse_eq_expr",
                 "parse_rel_expr", "parse_add_expr", "parse_mul_expr"}

\* rd(fn, T, st) is the call self.fn() in state st; while_loop(fn, T, st)
\* is the while loop of fn
RECURSIVE rd(_, _, _), while_loop(_, _, _)

\* the condition of the while loop of fn
while_cond(fn, T, st) ==
    LET la == lookahead(T, st)
    IN  CASE fn = "synchronize" ->
                la.type # "EOF" /\ ~(la.type = "DL" /\ la.lexeme \in {SEMI, RBRACE})
          [] fn = "parse_program" -> la.type # "EOF"
          [] fn = "parse_preprocess" ->
                ~is_dl_or_op(la, <<">">>) /\ la.type # "EOF"
          [] fn \in {"parse_extdef", "parse_param_list_opt", "parse_decl_stmt",
                     "parse_arg_list_opt"} -> is_dl(la, COMMA)
          [] fn \in {"parse_union_body", "parse_compound_stmt"} ->
                ~is_dl(la, RBRACE) /\ la.type # "EOF"
          [] fn = "parse_array_suffix_opt" -> is_dl(la, LBRACK)
          [] fn \in BinaryLevels -> la.type = "OP" /\ la.lexeme \in BinaryOps(fn)
          [] fn = "parse_postfix_expr" -> TRUE

\* one iteration of the while loop of fn: the state after it, and whether
\* it left the loop by `break`
while_body(fn, T, st) ==
    LET la      == lookahead(T, st)
        go(s)   == [st |-> s, brk |-> FALSE]
        stop(s) == [st |-> s, brk |-> TRUE]
    IN  CASE fn \in {"synchronize", "parse_preprocess"} ->
                go(Parser_advance(T, st))
          [] fn = "parse_program" ->
                IF is_dl(la, <<"#">>) THEN go(rd("parse_preprocess", T, st))
                ELSE IF is_type_kw(la) \/ is_union_kw(la)
                THEN go(rd("parse_extdef", T, st))
                ELSE go(rd("synchronize", T, Parser_error(T, st)))
          [] fn = "parse_extdef" ->
                LET s1 == Parser_advance(T, st)
                    s2 == match_id(T, s1)
                IN  IF ~is_id(lookahead(T, s1))
                    THEN stop(rd("synchronize", T, s2))
                    ELSE go(rd("parse_init_decl_after_first", T, s2))
          [] fn = "parse_union_body" ->
                IF ~is_type_kw(la)
                THEN LET s1 == rd("synchronize", T, Parser_error(T, st))
                     IN  IF is_dl(lookahead(T, s1), RBRACE) THEN stop(s1)
                         ELSE go(s1)
                ELSE LET s1 == Parser_advance(T, st)
                         s2 == match_id(T, s1)
                         s3 == rd("parse_array_suffix_opt", T, s2)
                     IN  go(match_dl(T, s3, SEMI))
          [] fn = "parse_array_suffix_opt" ->
                LET s1 == Parser_advance(T, st)
                    tk == lookahead(T, s1)
                    s2 == IF tk.type \in {"NUM10", "NUM8", "NUM16"}
                          THEN IF int_raises(tk.lexeme) THEN Raise(s1)
                               ELSE Parser_advance(T, s1)
                          ELSE Parser_error(T, s1)
                IN  go(match_dl(T, s2, RBRACK))
          [] fn = "parse_param_list_opt" ->
                go(rd("parse_param", T, Parser_advance(T, st)))
          [] fn = "parse_decl_stmt" ->
                LET s1 == Parser_advance(T, st)
                    s2 == match_id(T, s1)
                IN  go(rd("parse_init_decl_after_first", T, s2))
          [] fn = "parse_compound_stmt" ->
                LET s1 == rd("parse_stmt", T, st)
                IN  IF s1.status = "raised"
                    THEN LET caught == [s1 EXCEPT !.status = "ok"]
                         IN  go(rd("synchronize", T, Parser_error(T, caught)))
                    ELSE go(s1)
          [] fn \in BinaryLevels ->
                go(rd(BinaryBelow(fn), T, Parser_advance(T, st)))
          [] fn = "parse_postfix_expr" ->
                IF is_dl(la, LPAREN)
                THEN LET s1 == rd("parse_arg_list_opt", T, Parser_advance(T, st))
                     IN  go(match_dl(T, s1, RPAREN))
                ELSE IF is_dl(la, LBRACK)
                THEN LET s1 == rd("parse_expr", T, Parser_advance(T, st))
                     IN  go(match_dl(T, s1, RBRACK))
                ELSE IF la.type = "OP" /\ la.lexeme = <<".">>
                THEN go(match_id(T, Parser_advance(T, st)))
                ELSE IF la.type = "OP" /\ la.lexeme \in {<<"+", "+">>, <<"-", "-">>}
                THEN go(Parser_advance(T, st))
                ELSE stop(st)
          [] fn = "parse_arg_list_opt" ->
                go(rd("parse_expr", T, Parser_advance(T, st)))

\* `while cond: body`.  The parser's branches read the lookahead only, so
\* an iteration that ends where it began, with the condition still true,
\* is followed by the same iteration for ever.
while_loop(fn, T, st) ==
    IF st.status # "ok" THEN st
    ELSE IF ~while_cond(fn, T, st) THEN st
    ELSE LET r == while_body(fn, T, st)
         IN  IF r.brk \/ r.st.status # "ok" THEN r.st
             ELSE IF r.st.pos = st.pos /\ while_cond(fn, T, r.st)
             THEN [r.st EXCEPT !.status = "diverged"]
             ELSE while_loop(fn, T, r.st)

synchronize(T, st) ==
    LET s1 == while_loop("synchronize", T, st)
    IN  IF lookahead(T, s1).type # "EOF" THEN Parser_advance(T, s1) ELSE s1

parse_program(T, st) == while_loop("parse_program", T, st)

parse_preprocess(T, st) ==
    LET s1 == match_dl(T, st, <<"#">>)
        s2 == IF lookahead(T, s1).lexeme = <<"i", "n", "c", "l", "u", "d", "e">>
              THEN Parser_advance(T, s1)
              ELSE Parser_error(T, s1)
    IN  IF is_dl_or_op(lookahead(T, s2), <<"<">>)
        THEN LET s3 == while_loop("parse_preprocess", T, Parser_advance(T, s2))
             IN  IF is_dl_or_op(lookahead(T, s3), <<">">>)
                 THEN Parser_advance(T, s3)
                 ELSE Parser_error(T, s3)
        ELSE Parser_error(T, s2)

parse_extdef(T, st) ==
    LET s1 == rd("parse_type_spec", T, st)
        s2 == match_id(T, s1)
    IN  IF ~is_id(lookahead(T, s1)) THEN rd("synchronize", T, s2)
        ELSE IF is_dl(lookahead(T, s2), LPAREN)
        THEN LET s3 == match_dl(T, s2, LPAREN)
                 s4 == rd("parse_param_list_opt", T, s3)
                 s5 == match_dl(T, s4, RPAREN)
             IN  rd("parse_compound_stmt", T, s5)
        ELSE LET s3 == rd("parse_init_decl_after_first", T, s2)
                 s4 == while_loop("parse_extdef", T, s3)
             IN  match_dl(T, s4, SEMI)

parse_type_spec(T, st) ==
    IF is_type_kw(lookahead(T, st)) THEN Parser_advance(T, st)
    ELSE IF is_union_kw(lookahead(T, st))
    THEN LET s1 == Parser_advance(T, st)
             s2 == IF is_id(lookahead(T, s1)) THEN Parser_advance(T, s1)
                   ELSE s1
         IN  IF is_dl(lookahead(T, s2), LBRACE)
             THEN rd("parse_union_body", T, s2)
             ELSE s2
    ELSE Parser_error(T, st)

parse_union_body(T, st) ==
    LET s1 == match_dl(T, st, LBRACE)
        s2 == while_loop("parse_union_body", T, s1)
    IN  match_dl(T, s2, RBRACE)

parse_array_suffix_opt(T, st) == while_loop("parse_array_suffix_opt", T, st)

parse_init_decl_after_first(T, st) ==
    LET s1 == rd("parse_array_suffix_opt", T, st)
    IN  IF is_op(lookahead(T, s1), <<"=">>)
        THEN rd("parse_expr", T, Parser_advance(T, s1))
        ELSE s1

parse_param(T, st) ==
    LET s1 == rd("parse_type_spec", T, st)
        s2 == match_id(T, s1)
    IN  rd("parse_array_suffix_opt", T, s2)

parse_param_list_opt(T, st) ==
    IF is_dl(lookahead(T, st), RPAREN) THEN st
    ELSE IF is_kw(lookahead(T, st), <<"v", "o", "i", "d">>)
    THEN LET s1 == Parser_advance(T, st)
         IN  IF is_dl(lookahead(T, s1), RPAREN) THEN s1
             ELSE LET s2 == match_id(T, s1)
                      s3 == rd("parse_array_suffix_opt", T, s2)
                  IN  while_loop("parse_param_list_opt", T, s3)
    ELSE while_loop("parse_param_list_opt", T, rd("parse_param", T, st))

parse_decl_stmt(T, st) ==
    LET s1 == rd("parse_type_spec", T, st)
        s2 == match_id(T, s1)
        s3 == rd("parse_init_decl_after_first", T, s2)
        s4 == while_loop("parse_decl_stmt", T, s3)
    IN  match_dl(T, s4, SEMI)

parse_compound_stmt(T, st) ==
    LET s1 == match_dl(T, st, LBRACE)
        s2 == while_loop("parse_compound_stmt", T, s1)
    IN  match_dl(T, s2, RBRACE)

parse_if_stmt(T, st) ==
    LET s1 == match_kw(T, st, <<"i", "f">>)
        s2 == match_dl(T, s1, LPAREN)
        s3 == rd("parse_expr", T, s2)
        s4 == match_dl(T, s3, RPAREN)
        s5 == rd("parse_stmt", T, s4)
    IN  IF is_kw(lookahead(T, s5), <<"e", "l", "s", "e">>)
        THEN rd("parse_stmt", T, Parser_advance(T, s5))
        ELSE s5

parse_while_stmt(T, st) ==
    LET s1 == match_kw(T, st, <<"w", "h", "i", "l", "e">>)
        s2 == match_dl(T, s1, LPAREN)
        s3 == rd("parse_expr", T, s2)
        s4 == match_dl(T, s3, RPAREN)
    IN  rd("parse_stmt", T, s4)

parse_for_stmt(T, st) ==
    LET s1 == match_kw(T, st, <<"f", "o", "r">>)
        s2 == match_dl(T, s1, LPAREN)
        s3 == IF is_type_kw(lookahead(T, s2)) \/ is_union_kw(lookahead(T, s2))
              THEN rd("parse_decl_stmt", T, s2)
              ELSE IF ~is_dl(lookahead(T, s2), SEMI)
              THEN rd("parse_expr", T, s2)
              ELSE s2
        s4 == match_dl(T, s3, SEMI)
        s5 == IF is_dl(lookahead(T, s4), SEMI) THEN s4
              ELSE rd("parse_expr", T, s4)
        s6 == match_dl(T, s5, SEMI)
        s7 == IF is_dl(lookahead(T, s6), RPAREN) THEN s6
              ELSE rd("parse_expr", T, s6)
        s8 == match_dl(T, s7, RPAREN)
    IN  rd("parse_stmt", T, s8)

parse_return_stmt(T, st) ==
    LET s1 == match_kw(T, st, <<"r", "e", "t", "u", "r", "n">>)
    IN  IF is_dl(lookahead(T, s1), SEMI) THEN Parser_advance(T, s1)
        ELSE match_dl(T, rd("parse_expr", T, s1), SEMI)

parse_stmt(T, st) ==
    LET tk == lookahead(T, st)
    IN  IF is_type_kw(tk) \/ is_union_kw(tk) THEN rd("parse_decl_stmt", T, st)
        ELSE IF is_dl(tk, LBRACE) THEN rd("parse_compound_stmt", T, st)
        ELSE IF is_kw(tk, <<"i", "f">>) THEN rd("parse_if_stmt", T, st)
        ELSE IF is_kw(tk, <<"w", "h", "i", "l", "e">>)
        THEN rd("parse_while_stmt", T, st)
        ELSE IF is_kw(tk, <<"f", "o", "r">>) THEN rd("parse_for_stmt", T, st)
        ELSE IF is_kw(tk, <<"r", "e", "t", "u", "r", "n">>)
        THEN rd("parse_return_stmt", T, st)
        ELSE IF is_kw(tk, <<"b", "r", "e", "a", "k">>)
                \/ is_kw(tk, <<"c", "o", "n", "t", "i", "n", "u", "e">>)
        THEN match_dl(T, Parser_advance(T, st), SEMI)
        ELSE IF is_dl(tk, SEMI) THEN Parser_advance(T, st)
        ELSE match_dl(T, rd("parse_expr", T, st), SEMI)

parse_expr(T, st) == rd("parse_assign_expr", T, st)

parse_assign_expr(T, st) ==
    LET s1 == rd("parse_or_expr", T, st)
    IN  IF is_op(lookahead(T, s1), <<"=">>)
        THEN rd("parse_assign_expr", T, Parser_advance(T, s1))
        ELSE s1

\* parse_or_expr, parse_and_expr, parse_eq_expr, parse_rel_expr,
\* parse_add_expr and parse_mul_expr: an operand of the level below, then
\* the loop over the operators of the level
parse_binary(level, T, st) ==
    while_loop(level, T, rd(BinaryBelow(level), T, st))

parse_unary_expr(T, st) ==
    LET la == lookahead(T, st)
    IN  IF la.type = "OP" /\ la.lexeme \in {<<"+">>, <<"-">>, <<"!">>}
        THEN rd("parse_unary_expr", T, Parser_advance(T, st))
        ELSE rd("parse_postfix_expr", T, st)

parse_postfix_expr(T, st) ==
    while_loop("parse_postfix_expr", T, rd("parse_primary", T, st))

parse_primary(T, st) ==
    LET la == lookahead(T, st)
    IN  IF is_id(la) THEN Parser_advance(T, st)
        ELSE IF la.type = "RW" /\ la.lexeme = <<"p", "r", "i", "n", "t", "f">>
        THEN Parser_advance(T, st)
        ELSE IF is_const(la) THEN Parser_advance(T, st)
        ELSE IF is_dl(la, LPAREN)
        THEN LET s1 == rd("parse_expr", T, Parser_advance(T, st))
             IN  match_dl(T, s1, RPAREN)
        ELSE Parser_advance(T, Parser_error(T, st))

parse_arg_list_opt(T, st) ==
    IF is_dl(lookahead(T, st), RPAREN) THEN st
    ELSE while_loop("parse_arg_list_opt", T, rd("parse_expr", T, st))

\* a call of a method of the parser; a call made while an exception is on
\* its way up, or after a loop has diverged, does not happen
rd(fn, T, st) ==
    IF st.status # "ok" THEN st
    ELSE CASE fn = "synchronize" -> synchronize(T, st)
           [] fn = "parse_program" -> parse_program(T, st)
           [] fn = "parse_preprocess" -> parse_preprocess(T, st)
           [] fn = "parse_extdef" -> parse_extdef(T, st)
           [] fn = "parse_type_spec" -> parse_type_spec(T, st)
           [] fn = "parse_union_body" -> parse_union_body(T, st)
           [] fn = "parse_array_suffix_opt" -> parse_array_suffix_opt(T, st)
           [] fn = "parse_init_decl_after_first" ->
                 parse_init_decl_after_first(T, st)
           [] fn = "parse_param" -> parse_param(T, st)
           [] fn = "parse_param_list_opt" -> parse_param_list_opt(T, st)
           [] fn = "parse_decl_stmt" -> parse_decl_stmt(T, st)
           [] fn = "parse_compound_stmt" -> parse_compound_stmt(T, st)
           [] fn = "parse_if_stmt" -> parse_if_stmt(T, st)
           [] fn = "parse_while_stmt" -> parse_while_stmt(T, st)
           [] fn = "parse_for_stmt" -> parse_for_stmt(T, st)
           [] fn = "parse_return_stmt" -> parse_return_stmt(T, st)
           [] fn = "parse_stmt" -> parse_stmt(T, st)
           [] fn = "parse_expr" -> parse_expr(T, st)
           [] fn = "parse_assign_expr" -> parse_assign_expr(T, st)
           [] fn \in BinaryLevels -> parse_binary(fn, T, st)
           [] fn = "parse_unary_expr" -> parse_unary_expr(T, st)
           [] fn = "parse_postfix_expr" -> parse_postfix_expr(T, st)
           [] fn = "parse_primary" -> parse_primary(T, st)
           [] fn = "parse_arg_list_opt" -> parse_arg_list_opt(T, st)

(***************************************************************************)
(* main_parser.py: Parser(Lexer(src)).parse_program() on a token stream    *)
(***************************************************************************)
MaxTokens == 3

tk_dl(s) == Token("DL", s, 0, 0)
tk_op(s) == Token("OP", s, 0, 0)
tk_rw(s) == Token("RW", s, 0, 0)
TkInt == tk_rw(<<"i", "n", "t">>)
TkX   == Token("ID", <<"x">>, 0, 0)
TkOct == Token("NUM8", <<"0", "1", "2">>, 0, 0)

\* tokens of every kind the parser tells apart
RDAlphabet ==
    {tk_dl(<<c>>) : c \in {"#", "(", ")", "{", "}", ";", ",", "[", "]"}}
    \cup {tk_op(<<c>>) : c \in {"<", ">", "=", "+", ".", "*"}}
    \cup {tk_op(<<"+", "+">>), tk_op(<<"|", "|">>)}
    \cup {TkInt, tk_rw(KW_UNION), tk_rw(<<"v", "o", "i", "d">>),
          tk_rw(<<"i", "f">>), tk_rw(<<"e", "l", "s", "e">>),
          tk_rw(<<"f", "o", "r">>), tk_rw(<<"w", "h", "i", "l", "e">>),
          tk_rw(<<"r", "e", "t", "u", "r", "n">>),
          tk_rw(<<"b", "r", "e", "a", "k">>),
          tk_rw(<<"i", "n", "c", "l", "u", "d", "e">>),
          tk_rw(<<"p", "r", "i", "n", "t", "f">>)}
    \cup {TkX, Token("NUM10", <<"1">>, 0, 0), TkOct,
          Token("ERROR", <<"@">>, 0, 0)}

\* the beginnings that lead into each function of the parser
RDContexts ==
    LET f == <<TkInt, TkX, tk_dl(LPAREN)>>
        b == f \o <<tk_dl(RPAREN), tk_dl(LBRACE)>>
    IN  {<<>>, f, b,
         <<TkInt, TkX>>,
         <<tk_rw(KW_UNION), TkX, tk_dl(LBRACE)>>,
         <<tk_dl(<<"#">>), tk_rw(<<"i", "n", "c", "l", "u", "d", "e">>),
           tk_op(<<"<">>)>>,
         b \o <<TkX>>,
         b \o <<tk_rw(<<"f", "o", "r">>), tk_dl(LPAREN)>>,
         b \o <<tk_rw(<<"i", "f">>), tk_dl(LPAREN), TkX, tk_dl(RPAREN)>>}

\* the token streams of at most n tokens
RDTails(n) == UNION {[1..k -> RDAlphabet] : k \in 0..n}

\* a beginning followed by at most n tokens of any kind
RDInputs(n) == {c \o t : c \in RDContexts, t \in RDTails(n)}

InitRD ==
    /\ rd_tokens \in RDInputs(MaxTokens)
    /\ rd_result = <<>>
    /\ text = <<>> /\ pos = 0 /\ line = 1 /\ col = 1
    /\ tok = NoToken /\ start = 0
    /\ mcall = IdleMatch
    /\ cands = <<>> /\ winner = <<>>
    /\ IdleGrammar
    /\ IdleMain

NewParser == [pos |-> 0, errors |-> <<>>, status |-> "ok"]

\* Parser(lexer).parse_program()
ParseProgram ==
    /\ rd_result = <<>>
    /\ rd_result' = <<rd("parse_program", rd_tokens, NewParser)>>
    /\ UNCHANGED <<lexVars, mcall, priVars, ffVars, tblVars, parseVars,
                   mainVars, rd_tokens>>

NextRD == ParseProgram

SpecRD == InitRD /\ [][NextRD]_vars

(***************************************************************************)
(* C28: Parser.parse_program terminates for every finite token stream,     *)
(* well-formed or not: no loop repeats an iteration without consuming a    *)
(* token, and syntax errors are appended to `errors` rather than aborting  *)
(* the parse, so that parse_program returns with every token consumed.     *)
(***************************************************************************)
C28_Terminates ==
    rd_result # <<>> =>
        /\ rd_result[1].status = "ok"
        /\ rd_result[1].pos = Len(rd_tokens)

\* the part of C28 that the parser keeps: no loop of parse_program runs
\* for ever, and a parse that returns has consumed every token
C28_NoLoopStays ==
    rd_result # <<>> =>
        /\ rd_result[1].status # "diverged"
        /\ rd_result[1].status = "ok" => rd_result[1].pos = Len(rd_tokens)

\* `int x [ 012`: int(lexeme, 0) raises out of parse_program with the
\* missing bracket not reported
C28_Aborted ==
    /\ rd_tokens = <<TkInt, TkX, tk_dl(LBRACK), TkOct>>
    /\ rd_result # <<>>
    /\ rd_result[1].status = "raised"
    /\ rd_result[1].errors = <<>>
=============================================================================
